---- MODULE Spec2Model ----
(***************************************************************************)
(* Verification model of the Delta Exchange trading bot:                   *)
(*   - the per-user workflow state machine (callbacks/*.py, main.py,       *)
(*     utils/context_manager.py, utils/validators.py, utils/helpers.py)    *)
(*   - the order gateway (delta_api/orders.py)                             *)
(*   - the request executor's retry policy (delta_api/client.py)           *)
(*   - the rate limiter and request signing (delta_api/client.py,          *)
(*     delta_api/auth.py)                                                  *)
(*   - the ATM option resolver (delta_api/products.py)                     *)
(*   - the per-user context registry (utils/context_manager.py)            *)
(*   - the read operations (delta_api/positions.py, delta_api/wallet.py)   *)
(*                                                                         *)
(* Python values are represented as follows.                                *)
(*   None / Optional[x] : <<>> is None, <<v>> is the value v               *)
(*   str typed by a user: a sequence of one-character strings              *)
(*   float              : [k |-> "num", v |-> n] is the number n / Scale,  *)
(*                        [k |-> "nan"], [k |-> "inf"], [k |-> "ninf"]     *)
(***************************************************************************)
EXTENDS Integers, Sequences, FiniteSets, TLC

(***************************************************************************)
(* Bounds of the model                                                     *)
(***************************************************************************)
\* fixed-point denominator of modelled floats (one decimal digit)
Scale == 2 * 5
\* number of configured trading accounts (indices 1..NumAccounts)
NumAccounts == 1
\* longest list handed to place_batch_stop_orders
MaxBatch == 3
\* number of updates (callbacks and text messages) a session run handles
MaxSteps == 4
\* number of updates a run of the stop-loss / take-profit workflows handles
MaxProtectSteps == 6
\* last instant of the clock a rate-limiter run reaches, in ticks
MaxClock == 6
\* number of requests one client makes in a rate-limiter run
MaxRequests == 3
\* largest number of items in a query-parameter or body dict
MaxParams == 2
\* largest number of products in the catalog the exchange returns
MaxCatalog == 3
\* number of handler coroutines in flight at once
NumTasks == 2
\* number of UserContext objects a registry run may create
MaxObjects == 3

None == <<>>
Some(v) == <<v>>
IsNone(o) == o = <<>>
Val(o) == o[1]

(***************************************************************************)
(* config/constants.py                                                     *)
(***************************************************************************)
STATE_AWAITING_CUSTOM_LOT == "awaiting_custom_lot"
STATE_AWAITING_SL_TRIGGER_PCT == "awaiting_sl_trigger_pct"
STATE_AWAITING_SL_LIMIT_PCT == "awaiting_sl_limit_pct"
STATE_AWAITING_SL_TRIGGER_NUM == "awaiting_sl_trigger_num"
STATE_AWAITING_SL_LIMIT_NUM == "awaiting_sl_limit_num"
STATE_AWAITING_TARGET_TRIGGER_PCT == "awaiting_target_trigger_pct"
STATE_AWAITING_TARGET_LIMIT_PCT == "awaiting_target_limit_pct"
STATE_AWAITING_TARGET_TRIGGER_NUM == "awaiting_target_trigger_num"
STATE_AWAITING_TARGET_LIMIT_NUM == "awaiting_target_limit_num"
\* conversation_state = None
NO_STATE == "None"

SIDE_BUY == "buy"
SIDE_SELL == "sell"
DIRECTION_LONG == "long"
DIRECTION_SHORT == "short"
ORDER_TYPE_MARKET == "market_order"
ORDER_TYPE_LIMIT == "limit_order"
STOP_ORDER_TYPE_SL == "stop_loss_order"
STOP_ORDER_TYPE_TP == "take_profit_order"
PREDEFINED_LOTS == {1, 2, 5, 10}
CONTRACT_TYPE_CALL == "call_options"
CONTRACT_TYPE_PUT == "put_options"
UNDERLYING_SYMBOLS == {"BTCUSD", "ETHUSD"}
CALLBACK_CONFIRM_TRADE == "confirm_trade"
CALLBACK_CANCEL_TRADE == "cancel_trade"

(***************************************************************************)
(* Python's int() and float() on user text                                  *)
(* Grammar covered: [-]digits for int; [-]digits[.digit], nan, inf, -inf    *)
(* for float.  Anything else raises ValueError.                             *)
(***************************************************************************)
DigitChars == <<"0", "1", "2", "3", "4", "5", "6", "7", "8", "9">>
IsDigit(c) == \E i \in 1..10 : DigitChars[i] = c
DigitVal(c) == (CHOOSE i \in 1..10 : DigitChars[i] = c) - 1
AllDigits(s) == Len(s) > 0 /\ \A i \in 1..Len(s) : IsDigit(s[i])

RECURSIVE DigitsToNat(_)
DigitsToNat(s) ==
    IF Len(s) = 0 THEN 0
    ELSE 10 * DigitsToNat(SubSeq(s, 1, Len(s) - 1)) + DigitVal(s[Len(s)])

Negative(s) == Len(s) > 0 /\ s[1] = "-"
Unsigned(s) == IF Negative(s) THEN Tail(s) ELSE s

\* int(s) does not raise ValueError
IntParses(s) == AllDigits(Unsigned(s))
IntOf(s) == IF Negative(s) THEN 0 - DigitsToNat(Unsigned(s)) ELSE DigitsToNat(Unsigned(s))

DotAt(s) == {i \in 1..Len(s) : s[i] = "."}
IsDecimal(s) ==
    \/ AllDigits(s)
    \/ /\ Cardinality(DotAt(s)) = 1
       /\ \E i \in DotAt(s) : /\ AllDigits(SubSeq(s, 1, i - 1))
                              /\ i = Len(s) - 1
                              /\ IsDigit(s[Len(s)])
DecimalScaled(s) ==
    IF AllDigits(s) THEN Scale * DigitsToNat(s)
    ELSE Scale * DigitsToNat(SubSeq(s, 1, Len(s) - 2)) + DigitVal(s[Len(s)])

Num(n) == [v |-> n, k |-> "num"]
NaN == [v |-> 0, k |-> "nan"]
PosInf == [v |-> 0, k |-> "inf"]
NegInf == [v |-> 0, k |-> "ninf"]

\* float(s) does not raise ValueError
FloatParses(s) ==
    \/ s = <<"n", "a", "n">>
    \/ Unsigned(s) = <<"i", "n", "f">>
    \/ IsDecimal(Unsigned(s))
FloatOf(s) ==
    IF s = <<"n", "a", "n">> THEN NaN
    ELSE IF s = <<"i", "n", "f">> THEN PosInf
    ELSE IF s = <<"-", "i", "n", "f">> THEN NegInf
    ELSE IF Negative(s) THEN Num(0 - DecimalScaled(Unsigned(s)))
    ELSE Num(DecimalScaled(s))

\* x <= c and x > c for a float x and an integer c (IEEE: false for nan)
FloatLeq(x, c) == \/ x.k = "ninf"
                  \/ x.k = "num" /\ x.v <= c * Scale
FloatGt(x, c) == \/ x.k = "inf"
                 \/ x.k = "num" /\ x.v > c * Scale

(***************************************************************************)
(* utils/validators.py : each returns (is_valid, value)                     *)
(***************************************************************************)
Invalid == [valid |-> FALSE, value |-> None]
Valid(v) == [valid |-> TRUE, value |-> Some(v)]

validate_lot_size(lot_input) ==
    IF ~IntParses(lot_input) THEN Invalid
    ELSE IF IntOf(lot_input) <= 0 THEN Invalid
    ELSE IF IntOf(lot_input) > 1000 THEN Invalid
    ELSE Valid(IntOf(lot_input))

\* validate_percentage without its upper limit
validate_percentage_unbounded(pct_input) ==
    IF ~FloatParses(pct_input) THEN Invalid
    ELSE IF FloatLeq(FloatOf(pct_input), 0) THEN Invalid
    ELSE Valid(FloatOf(pct_input))

validate_percentage(pct_input) ==
    IF ~FloatParses(pct_input) THEN Invalid
    ELSE IF FloatLeq(FloatOf(pct_input), 0) THEN Invalid
    ELSE IF FloatGt(FloatOf(pct_input), 100) THEN Invalid
    ELSE Valid(FloatOf(pct_input))

validate_price(price_input) ==
    IF ~FloatParses(price_input) THEN Invalid
    ELSE IF FloatLeq(FloatOf(price_input), 0) THEN Invalid
    ELSE IF FloatGt(FloatOf(price_input), 1000000) THEN Invalid
    ELSE Valid(FloatOf(price_input))


(***************************************************************************)
(* Inputs the front-end can deliver                                         *)
(***************************************************************************)
\* free text typed by the user
TextInputs == { <<"5">>, <<"-", "5">>, <<"1", "5", "0">>, <<"a", "b", "c">> }
\* account indices offered to select_account: the configured ones and one that is not
AccountChoices == 1..(NumAccounts + 1)
Configured(i) == i \in 1..NumAccounts
Assets == {"BTCUSD"}
ExpiryStamps == {1700000000}
\* what find_atm_options can return: the keys of its result dictionary
AtmResults == { [strike |-> 50000, spot_price |-> 50100, call |-> 301, put |-> 302] }
\* positions whose buttons set_stoploss / set_target can have rendered
\* (product_id, size, entry_price)
Positions == { [product_id |-> 301, size |-> 2, entry_price |-> Num(1000 * Scale)],
               [product_id |-> 302, size |-> 0 - 3, entry_price |-> Num(2000 * Scale)] }
Methods == {"percentage", "numeral"}
Directions == {DIRECTION_LONG, DIRECTION_SHORT}
Kinds == {"sl", "target"}
\* outcome of one exchange call as seen by the API wrappers:
\*   ok        : 2xx body with a result field
\*   no_result : 2xx body without a result field
\*   error     : the request executor raised
Responses == {"error", "ok", "no_result"}
\* the exchange's answers to the two legs of a straddle
LegResponses == Responses \X Responses
\* the ids the exchange assigns to the orders it accepts next, in order
NewOrderIds == <<11, 12>>
\* the id the exchange assigns to the order of item i of a batch
BatchOrderId(i) == 20 + i
\* order records handed to place_batch_stop_orders, with the keys it reads
OrderRecords ==
    { [product_id |-> 301, size |-> 2, side |-> "sell",
       stop_price |-> Num(900 * Scale), limit_price |-> Num(890 * Scale)],
      [product_id |-> 302, size |-> 3, side |-> "buy",
       stop_price |-> Num(2100 * Scale), limit_price |-> Num(2110 * Scale)] }
BatchOrderTypes == {"stop_loss", "take_profit"}
\* the lists of at most MaxBatch items over a set
ListsOver(S) == UNION { [1..n -> S] : n \in 0..MaxBatch }
ListsUpTo(S, max) == UNION { [1..n -> S] : n \in 0..max }
LotSizes == {1, 2}
\* sizes a caller of the gateway can pass, and what the exchange can list
OrderSizes == {0 - 1, 0, 1, 2}
LimitPrices == {100, 200}
Listings == {<<>>, <<301>>, <<301, 302>>}
\* the spot_price field of a ticker result: absent, or the price it carries
Tickers == {<<>>, <<2>>, <<3>>}

(***************************************************************************)
(* utils/context_manager.py : UserContext                                   *)
(***************************************************************************)
EmptyProt == [product_id |-> None, size |-> None, entry_price |-> None,
              limit_price |-> None, method |-> None, trigger_pct |-> None,
              limit_pct |-> None, trigger_price |-> None]
\* temp_data = {} ; the keys are <kind>_<field>
EmptyTemp == [sl |-> EmptyProt, target |-> EmptyProt]

NewUserContext ==
    [account_index |-> None, account_credentials |-> None,
     selected_asset |-> None, selected_expiry |-> None, selected_strike |-> None,
     call_product_id |-> None, put_product_id |-> None, lot_size |-> None,
     trade_direction |-> None, conversation_state |-> NO_STATE,
     temp_data |-> EmptyTemp]

set_account(c, account_index) ==
    [c EXCEPT !.account_index = Some(account_index),
              !.account_credentials = Some(account_index)]

clear_trade_data(c) ==
    [c EXCEPT !.selected_asset = None, !.selected_expiry = None,
              !.selected_strike = None, !.call_product_id = None,
              !.put_product_id = None, !.lot_size = None,
              !.trade_direction = None, !.temp_data = EmptyTemp]

clear_all(c) ==
    [clear_trade_data(c) EXCEPT !.account_index = None,
                                !.account_credentials = None,
                                !.conversation_state = NO_STATE]

\* a check that takes every session to have an account
has_account_always(c) == TRUE

has_account(c) == ~IsNone(c.account_credentials)

(***************************************************************************)
(* utils/helpers.py                                                         *)
(***************************************************************************)
\* entry * (1 + sign * pct / 100), truncated to the model's fixed point
PctOfEntry(entry_price, percentage, sign) ==
    IF entry_price.k = "num" /\ percentage.k = "num"
    THEN Num((entry_price.v * (100 * Scale + sign * percentage.v)) \div (100 * Scale))
    ELSE NaN

\* the stop price of a long position, whatever the direction
stop_price_ignoring_direction(entry_price, percentage, is_long) ==
    PctOfEntry(entry_price, percentage, 0 - 1)

\* the target price of a long position, whatever the direction
target_price_ignoring_direction(entry_price, percentage, is_long) ==
    PctOfEntry(entry_price, percentage, 1)

calculate_stop_price_from_percentage(entry_price, percentage, is_long) ==
    IF is_long THEN PctOfEntry(entry_price, percentage, 0 - 1)
    ELSE PctOfEntry(entry_price, percentage, 1)

calculate_target_price_from_percentage(entry_price, percentage, is_long) ==
    IF is_long THEN PctOfEntry(entry_price, percentage, 1)
    ELSE PctOfEntry(entry_price, percentage, 0 - 1)

Abs(n) == IF n < 0 THEN 0 - n ELSE n


(***************************************************************************)
(* Exchange requests as the API wrappers issue them.  A request record      *)
(* carries the response the exchange gave to it (resp) and the order id it  *)
(* is about: the id the exchange assigned to an accepted order, or the id   *)
(* named by a cancellation.                                                 *)
(***************************************************************************)
Request(method, path, body, resp, id) ==
    [method |-> method, path |-> path, body |-> body, resp |-> resp, id |-> id]

NoBody == [product_id |-> None, size |-> None, side |-> "", stop_price |-> None,
           limit_price |-> None, order_type |-> "", stop_order_type |-> "",
           reduce_only |-> None]

GetRequest(path, resp) == Request("GET", path, NoBody, resp, None)

\* what a wrapper delivers: either it raised (error) or it returned (value)
Raised(error, reqs) == [value |-> None, error |-> error, reqs |-> reqs, raised |-> TRUE]
Returned(value, reqs) == [value |-> Some(value), error |-> "", reqs |-> reqs, raised |-> FALSE]
\* str(e) of the exception a failed call leaves
ErrorOf(resp) == IF resp = "no_result" THEN "Invalid order response" ELSE "HTTP error"

(***************************************************************************)
(* delta_api/orders.py : OrderAPI                                           *)
(***************************************************************************)
PostOrder(body, resp, id) ==
    LET req == Request("POST", "/v2/orders", body, resp,
                       IF resp = "ok" THEN Some(id) ELSE None)
    IN IF resp = "ok"
       THEN Returned([product_id |-> Val(body.product_id), size |-> Val(body.size),
                      side |-> body.side, id |-> id], <<req>>)
       ELSE Raised(ErrorOf(resp), <<req>>)

place_market_order(product_id, side, size, resp, id) ==
    PostOrder([NoBody EXCEPT !.product_id = Some(product_id), !.side = side,
                             !.size = Some(size), !.order_type = ORDER_TYPE_MARKET],
              resp, id)

place_limit_order(product_id, side, size, limit_price, resp, id) ==
    PostOrder([NoBody EXCEPT !.product_id = Some(product_id), !.side = side,
                             !.size = Some(size), !.order_type = ORDER_TYPE_LIMIT,
                             !.limit_price = Some(limit_price)],
              resp, id)

\* the operations that read from the exchange; result is the list the
\* exchange puts in the result field when it answers with one
\* OrderAPI.get_orders: orders stays [] when the response has no result
get_orders(result, resp) ==
    LET req == GetRequest("/v2/orders", resp)
    IN IF resp = "error" THEN Raised(ErrorOf(resp), <<req>>)
       ELSE IF resp = "ok" THEN Returned(result, <<req>>)
       ELSE Returned(<<>>, <<req>>)

\* PositionAPI.get_positions(underlying_asset=...): "No positions found in
\* response", return []
get_positions(result, resp) ==
    LET req == GetRequest("/v2/positions", resp)
    IN IF resp = "error" THEN Raised(ErrorOf(resp), <<req>>)
       ELSE IF resp = "ok" THEN Returned(result, <<req>>)
       ELSE Returned(<<>>, <<req>>)

\* WalletAPI.get_account_summary: the summary keeps its zeros when the
\* response has no result; with a result it sums the balances (here their
\* number stands for the sum)
get_account_summary(result, resp) ==
    LET req == GetRequest("/v2/wallet/balances", resp)
    IN IF resp = "error" THEN Raised(ErrorOf(resp), <<req>>)
       ELSE IF resp = "ok" THEN Returned(Len(result), <<req>>)
       ELSE Returned(0, <<req>>)

\* ProductAPI.get_spot_price; ticker is the spot_price field of the result
\* the exchange answered with, None when the result carries no such field:
\* float(response['result'].get('spot_price', 0))
get_spot_price(symbol, ticker, resp) ==
    LET req == GetRequest("/v2/tickers/symbol", resp)
    IN IF resp = "error" THEN Raised(ErrorOf(resp), <<req>>)
       ELSE IF resp = "ok"
            THEN Returned(IF IsNone(ticker) THEN 0 ELSE Val(ticker), <<req>>)
       ELSE Raised("ValueError", <<req>>)

place_stop_loss_order(product_id, side, size, stop_price, limit_price, reduce_only, resp, id) ==
    PostOrder([product_id |-> Some(product_id), size |-> Some(size), side |-> side,
               stop_price |-> Some(stop_price), limit_price |-> Some(limit_price),
               order_type |-> ORDER_TYPE_LIMIT, stop_order_type |-> STOP_ORDER_TYPE_SL,
               reduce_only |-> Some(reduce_only)],
              resp, id)

place_take_profit_order(product_id, side, size, stop_price, limit_price, reduce_only, resp, id) ==
    PostOrder([product_id |-> Some(product_id), size |-> Some(size), side |-> side,
               stop_price |-> Some(stop_price), limit_price |-> Some(limit_price),
               order_type |-> ORDER_TYPE_LIMIT, stop_order_type |-> STOP_ORDER_TYPE_TP,
               reduce_only |-> Some(reduce_only)],
              resp, id)

cancel_order(order_id, resp) ==
    LET req == Request("DELETE", "/v2/orders/id", NoBody, resp, Some(order_id))
    IN IF resp = "error" THEN Raised(ErrorOf(resp), <<req>>)
       ELSE Returned(order_id, <<req>>)

\* place_straddle_orders with a compensating cancel of the call order when the
\* put leg fails
place_straddle_orders_compensating(call_product_id, put_product_id, side, size, resps, ids) ==
    LET call_order == place_market_order(call_product_id, side, size, resps[1], ids[1])
    IN IF call_order.raised
       THEN Raised(call_order.error, call_order.reqs)
       ELSE LET put_order == place_market_order(put_product_id, side, size,
                                                resps[2], ids[2])
                cancelled == cancel_order(ids[1], "ok")
            IN IF put_order.raised
               THEN Raised(put_order.error,
                           call_order.reqs \o put_order.reqs \o cancelled.reqs)
               ELSE Returned([call_order |-> Val(call_order.value),
                              put_order |-> Val(put_order.value),
                              success |-> TRUE],
                             call_order.reqs \o put_order.reqs)

\* place_straddle_orders sending the put leg whatever happened to the call leg
place_straddle_orders_both_legs(call_product_id, put_product_id, side, size, resps, ids) ==
    LET call_order == place_market_order(call_product_id, side, size, resps[1], ids[1])
        put_order == place_market_order(put_product_id, side, size, resps[2], ids[2])
    IN IF call_order.raised
       THEN Raised(call_order.error, call_order.reqs \o put_order.reqs)
       ELSE IF put_order.raised
       THEN Raised(put_order.error, call_order.reqs \o put_order.reqs)
       ELSE Returned([call_order |-> Val(call_order.value),
                      put_order |-> Val(put_order.value),
                      success |-> TRUE],
                     call_order.reqs \o put_order.reqs)

\* resps and ids: the exchange's answers to the call leg and to the put leg
place_straddle_orders(call_product_id, put_product_id, side, size, resps, ids) ==
    LET call_order == place_market_order(call_product_id, side, size, resps[1], ids[1])
    IN IF call_order.raised
       THEN Raised(call_order.error, call_order.reqs)
       ELSE LET put_order == place_market_order(put_product_id, side, size,
                                                resps[2], ids[2])
            IN IF put_order.raised
               THEN Raised(put_order.error, call_order.reqs \o put_order.reqs)
               ELSE Returned([call_order |-> Val(call_order.value),
                              put_order |-> Val(put_order.value),
                              success |-> TRUE],
                             call_order.reqs \o put_order.reqs)

\* place_batch_stop_orders leaving its loop at the first item that fails
RECURSIVE BatchFromAborting(_, _, _, _)
BatchFromAborting(orders, order_type, resps, i) ==
    IF i > Len(orders)
    THEN [reqs |-> <<>>, results |-> <<>>]
    ELSE LET order_data == orders[i]
             placed ==
                 IF order_type = "stop_loss"
                 THEN place_stop_loss_order(order_data.product_id, order_data.side,
                                            order_data.size, order_data.stop_price,
                                            order_data.limit_price, TRUE,
                                            resps[i], BatchOrderId(i))
                 ELSE place_take_profit_order(order_data.product_id, order_data.side,
                                              order_data.size, order_data.stop_price,
                                              order_data.limit_price, TRUE,
                                              resps[i], BatchOrderId(i))
             rest == BatchFromAborting(orders, order_type, resps, i + 1)
         IN IF placed.raised
            THEN [reqs |-> placed.reqs,
                  results |-> <<[product_id |-> order_data.product_id, error |-> placed.error,
                                 success |-> FALSE,
                                 order |-> None]>>]
            ELSE [reqs |-> placed.reqs \o rest.reqs,
                  results |-> <<[product_id |-> order_data.product_id, error |-> "",
                                 success |-> TRUE,
                                 order |-> placed.value]>> \o rest.results]

\* place_batch_stop_orders from item i on: the results appended for the items
\* i.. and the requests made for them; resps[i] is the exchange's answer to
\* the order of item i
RECURSIVE BatchFrom(_, _, _, _)
BatchFrom(orders, order_type, resps, i) ==
    IF i > Len(orders)
    THEN [reqs |-> <<>>, results |-> <<>>]
    ELSE LET order_data == orders[i]
             placed ==
                 IF order_type = "stop_loss"
                 THEN place_stop_loss_order(order_data.product_id, order_data.side,
                                            order_data.size, order_data.stop_price,
                                            order_data.limit_price, TRUE,
                                            resps[i], BatchOrderId(i))
                 ELSE place_take_profit_order(order_data.product_id, order_data.side,
                                              order_data.size, order_data.stop_price,
                                              order_data.limit_price, TRUE,
                                              resps[i], BatchOrderId(i))
             result ==
                 IF placed.raised
                 THEN [product_id |-> order_data.product_id, error |-> placed.error, success |-> FALSE,
                       order |-> None]
                 ELSE [product_id |-> order_data.product_id, error |-> "", success |-> TRUE,
                       order |-> placed.value]
             rest == BatchFrom(orders, order_type, resps, i + 1)
         IN [reqs |-> placed.reqs \o rest.reqs,
             results |-> <<result>> \o rest.results]

place_batch_stop_orders(orders, order_type, resps) ==
    LET done == BatchFrom(orders, order_type, resps, 1)
    IN Returned(done.results, done.reqs)

\* the orders of a request log that are live at the exchange once the log has
\* been played: accepted orders minus those a later accepted cancel names
LiveAfter(reqs) ==
    { Val(reqs[i].id) : i \in { j \in 1..Len(reqs) :
          /\ reqs[j].method = "POST" /\ reqs[j].resp = "ok"
          /\ ~\E c \in (j + 1)..Len(reqs) :
                 /\ reqs[c].method = "DELETE" /\ reqs[c].resp # "error"
                 /\ reqs[c].id = reqs[j].id } }


(***************************************************************************)
(* delta_api/client.py : DeltaClient.  session.request runs the mounted     *)
(* adapter's Retry policy; _make_request receives what the policy lets      *)
(* through.                                                                  *)
(***************************************************************************)
\* Retry(total=3, ...)
RetryTotal == 3
status_forcelist == {429, 500, 502, 503, 504}
allowed_methods == {"GET", "POST", "DELETE", "HEAD", "PUT", "OPTIONS", "TRACE"}
\* the verbs DeltaClient.get / post / delete hand to _make_request
ClientMethods == {"GET", "POST", "DELETE"}

\* the statuses for which the policy honours a Retry-After header
RETRY_AFTER_STATUS_CODES == {413, 429, 503}

\* what one HTTP attempt can meet: a response with a status, with or without
\* a Retry-After header, or a transport error (the connection fails, or the
\* read times out)
\* json tells whether the body of the response parses as JSON
Response(code) ==
    [code |-> code, kind |-> "response", retry_after |-> FALSE, json |-> TRUE]
ResponseRetryAfter(code) ==
    [code |-> code, kind |-> "response", retry_after |-> TRUE, json |-> TRUE]
ResponseNoJson(code) ==
    [code |-> code, kind |-> "response", retry_after |-> FALSE, json |-> FALSE]
ConnectError ==
    [code |-> 0, kind |-> "connect_error", retry_after |-> FALSE, json |-> FALSE]
ReadTimeout ==
    [code |-> 0, kind |-> "read_timeout", retry_after |-> FALSE, json |-> FALSE]
AttemptOutcomes ==
    {ConnectError, ReadTimeout, ResponseNoJson(200), Response(200),
     Response(400), Response(404), Response(413), ResponseRetryAfter(413),
     Response(429), Response(500), ResponseNoJson(502), Response(503)}

\* a policy that retries every error status
is_retry_any_error(method, status_code, has_retry_after, total) ==
    method \in allowed_methods /\ status_code >= 400

\* Retry.is_retry: a response is retried when its status is force-listed, or
\* when retries are left and it carries a Retry-After header with one of the
\* statuses that header is honoured for
is_retry(method, status_code, has_retry_after, total) ==
    /\ method \in allowed_methods
    /\ \/ status_code \in status_forcelist
       \/ /\ total # 0
          /\ has_retry_after
          /\ status_code \in RETRY_AFTER_STATUS_CODES

\* whether the policy takes the attempt's outcome as a failure to retry
Retried(method, outcome, total) ==
    \/ outcome.kind = "connect_error"
    \/ outcome.kind = "read_timeout" /\ method \in allowed_methods
    \/ /\ outcome.kind = "response"
       /\ is_retry(method, outcome.code, outcome.retry_after, total)

\* Retry.increment: one retry is taken from the total
increment(total) == total - 1
\* a policy that gives up one failure later
is_exhausted_late(total) == total < 0 - 1

\* Retry.is_exhausted
is_exhausted(total) == total < 0

\* the exception session.request raises once the retries are exhausted, or
\* for a transport error the policy does not retry
ExhaustedError(outcome) ==
    IF outcome.kind = "response" THEN "RetryError" ELSE "ConnectionError"

\* a check that lets client errors pass
raise_for_status_server_only(status_code) == status_code >= 500

\* response.raise_for_status(): HTTPError for a 4xx or 5xx status
raise_for_status(status_code) == status_code >= 400

\* one call of _make_request: the verb, the retries left, the outcomes of the
\* attempts made so far, and how the call ended
ExIdle == [method |-> "", result |-> "", total |-> RetryTotal,
           pc |-> "idle", attempts |-> <<>>]

\* the call after one more attempt has met the given outcome
AfterAttempt(e, outcome) ==
    LET made == [e EXCEPT !.attempts = Append(e.attempts, outcome)]
    IN IF Retried(e.method, outcome, e.total)
       THEN IF is_exhausted(increment(e.total))
            THEN [made EXCEPT !.pc = "done", !.total = increment(e.total),
                              !.result = ExhaustedError(outcome)]
            ELSE [made EXCEPT !.total = increment(e.total)]
       ELSE IF outcome.kind # "response"
       THEN [made EXCEPT !.pc = "done", !.result = ExhaustedError(outcome)]
       ELSE IF raise_for_status(outcome.code)
       THEN [made EXCEPT !.pc = "done", !.result = "HTTPError"]
       \* return response_body, a name left unbound when response.json() failed
       ELSE IF ~outcome.json
       THEN [made EXCEPT !.pc = "done", !.result = "UnboundLocalError"]
       ELSE [made EXCEPT !.pc = "done", !.result = "returned"]

(***************************************************************************)
(* delta_api/client.py : DeltaClient._rate_limit and the part of            *)
(* _make_request around it.  Time is counted in ticks of 50 ms; time.time() *)
(* reads the clock rl.now, which advances between any two statements.       *)
(***************************************************************************)
\* settings.MIN_REQUEST_INTERVAL = 0.1 s, in ticks
MIN_REQUEST_INTERVAL == 2

\* a client just constructed (last_request_time = 0) while the clock reads a
\* time far from its epoch; dispatched lists the times at which
\* session.request was called
RlIdle == [pc |-> "idle", now |-> MIN_REQUEST_INTERVAL,
           last_request_time |-> 0, current_time |-> 0, wake |-> 0, dispatched |-> <<>>]

\* current_time = time.time()
rate_limit_enter(r) == [r EXCEPT !.pc = "checked", !.current_time = r.now]

\* time_since_last_request < MIN_REQUEST_INTERVAL: time.sleep(sleep_time)
\* returns no earlier than sleep_time after it was called
rate_limit_check(r) ==
    LET time_since_last_request == r.current_time - r.last_request_time
        sleep_time == MIN_REQUEST_INTERVAL - time_since_last_request
    IN IF time_since_last_request < MIN_REQUEST_INTERVAL
       THEN [r EXCEPT !.pc = "sleeping", !.wake = r.now + sleep_time]
       ELSE [r EXCEPT !.pc = "stamping"]

\* self.last_request_time = time.time()
rate_limit_stamp(r) == [r EXCEPT !.pc = "prepared", !.last_request_time = r.now]

\* self.session.request(...)
dispatch(r) ==
    [r EXCEPT !.pc = "in_flight", !.dispatched = Append(r.dispatched, r.now)]

(***************************************************************************)
(* delta_api/client.py : what _make_request signs and what it hands to      *)
(* session.request.  A string is the sequence of its tokens; a dict is the  *)
(* sequence of its <<key, value>> items in insertion order, a value being a *)
(* token sequence.                                                          *)
(***************************************************************************)
\* sep.join(parts)
RECURSIVE Join(_, _)
Join(parts, sep) ==
    IF parts = <<>> THEN <<>>
    ELSE IF Len(parts) = 1 THEN parts[1]
    ELSE parts[1] \o <<sep>> \o Join(Tail(parts), sep)

\* "if query_params:" / "if data:" : None and the empty dict are both falsy
Truthy(d) == ~IsNone(d) /\ Val(d) # <<>>

\* query_string = "?" + "&".join([f"{k}={v}" for k, v in query_params.items()])
query_string(query_params) ==
    IF Truthy(query_params)
    THEN LET items == Val(query_params)
         IN <<"?">> \o Join([i \in 1..Len(items) |->
                                <<items[i][1], "=">> \o items[i][2]], "&")
    ELSE <<>>

\* urlencode quotes every key and value: letters, digits and '_' stay, a
\* reserved character such as ',' becomes its percent escape
quote_plus(token) == IF token = "," THEN "%2C" ELSE token

\* params=query_params: the query requests puts in the URL
encode_params(query_params) ==
    IF Truthy(query_params)
    THEN LET items == Val(query_params)
         IN <<"?">> \o Join([i \in 1..Len(items) |->
                                <<quote_plus(items[i][1]), "=">>
                                \o [j \in 1..Len(items[i][2]) |->
                                       quote_plus(items[i][2][j])]], "&")
    ELSE <<>>

\* json.dumps(obj, separators=(item_separator, key_separator))
dumps(obj, item_separator, key_separator) ==
    <<"{">> \o Join([i \in 1..Len(obj) |->
                        <<obj[i][1], key_separator>> \o obj[i][2]],
                    item_separator)
            \o <<"}">>

\* payload = json.dumps(data, separators=(',', ':')) if data else ""
payload(data) == IF Truthy(data) THEN dumps(Val(data), ",", ":") ELSE <<>>

\* json=data: requests serializes a body whenever json is not None, with
\* json.dumps' default separators
prepare_body(data) ==
    IF IsNone(data) THEN None ELSE Some(dumps(Val(data), ", ", ": "))

\* signature_data = method + timestamp + path + query_string + payload
generate_signature(method, timestamp, path, qs, body) ==
    <<method, timestamp, path>> \o qs \o body

\* no request made yet
WireIdle == [method |-> "", path |-> "", body |-> None,
             query_string |-> <<>>, payload |-> <<>>,
             signature_data |-> <<>>, url_query |-> <<>>]

\* _make_request: the strings that are signed, and the query and the body
\* that session.request transmits
make_request(method, path, query_params, data) ==
    [method |-> method, path |-> path,
     body |-> prepare_body(data),
     query_string |-> query_string(query_params),
     payload |-> payload(data),
     signature_data |-> generate_signature(method, "timestamp", path,
                                           query_string(query_params),
                                           payload(data)),
     url_query |-> encode_params(query_params)]

\* the items the callers put in query parameters and in bodies
ParamPool == << <<"state", <<"open">> >>,
                <<"product_id", <<"301">> >>,
                <<"states", <<"live">> >>,
                <<"contract_types", <<"call_options", ",", "put_options">> >>,
                <<"underlying_asset_symbols", <<"BTC">> >> >>
DataPool == << <<"product_id", <<"301">> >>,
               <<"side", <<"buy">> >>,
               <<"size", <<"1">> >>,
               <<"order_type", <<"market_order">> >> >>
\* the dicts of at most MaxParams items drawn from a pool, no key twice
DictsOver(pool) ==
    { [i \in 1..Len(ix) |-> pool[ix[i]]] :
        ix \in { q \in ListsUpTo(1..Len(pool), MaxParams) :
                   \A i, j \in 1..Len(q) : i # j => q[i] # q[j] } }
\* a dict argument: None, or one of the dicts
OptionalDicts(pool) == {None} \cup { Some(d) : d \in DictsOver(pool) }
GetPaths == <<"/v2/orders", "/v2/products", "/v2/tickers/BTCUSD">>
PostPaths == <<"/v2/orders">>
DeletePaths == <<"/v2/orders/11", "/v2/orders/all">>

(***************************************************************************)
(* utils/helpers.py : create_callback_data and parse_callback_data.  A      *)
(* string is the sequence of its pieces, ":" being a piece of its own; a    *)
(* parameter is an int or a string.                                         *)
(***************************************************************************)
IntParam(n) == [int |-> n]
StrParam(s) == [str |-> s]

\* str(n) of an int: its decimal digits, with a sign when negative
RECURSIVE str_int(_)
str_int(n) ==
    IF n < 0 THEN <<"-">> \o str_int(0 - n)
    ELSE IF n < 10 THEN <<DigitChars[n + 1]>>
    ELSE str_int(n \div 10) \o <<DigitChars[(n % 10) + 1]>>

\* str(p)
str(p) == IF "int" \in DOMAIN p THEN str_int(p.int) ELSE p.str

\* ':'.join([action] + [str(p) for p in params])
create_callback_data(action, params) ==
    Join(<<action>> \o [i \in 1..Len(params) |-> str(params[i])], ":")

\* s.partition(sep): the text before the first separator and the rest
RECURSIVE split_at_first(_, _)
split_at_first(s, sep) ==
    IF s = <<>> THEN << <<>> >>
    ELSE IF Head(s) = sep THEN << <<>>, Tail(s) >>
    ELSE LET rest == split_at_first(Tail(s), sep)
         IN << <<Head(s)>> \o rest[1] >> \o Tail(rest)

\* s.split(sep)
RECURSIVE split(_, _)
split(s, sep) ==
    IF s = <<>> THEN << <<>> >>
    ELSE IF Head(s) = sep THEN << <<>> >> \o split(Tail(s), sep)
    ELSE LET rest == split(Tail(s), sep)
         IN << <<Head(s)>> \o rest[1] >> \o Tail(rest)

\* parse_callback_data: the result has a params key only when there is more
\* than one part
parse_callback_data(callback_data) ==
    LET parts == split(callback_data, ":")
    IN [action |-> parts[1],
        params |-> IF Len(parts) > 1 THEN Some(Tail(parts)) ELSE None]

\* action names and parameters the callers encode, and some they do not
ActionNames == << <<"select_account">>, <<"select_expiry">>,
                  <<"sl", ":", "method">> >>
CallbackParamPool == << IntParam(3), IntParam(13), IntParam(0 - 2),
                        StrParam(<<"BTCUSD">>), StrParam(<<>>),
                        StrParam(<<"05", ":", "00">>) >>
ParamLists ==
    { [i \in 1..Len(ix) |-> CallbackParamPool[ix[i]]] :
        ix \in ListsUpTo(1..Len(CallbackParamPool), MaxParams) }

(***************************************************************************)
(* delta_api/positions.py : PositionAPI.get_positions, the query            *)
(* parameters of the requests one call makes.  Without a filter the call    *)
(* calls itself for BTC and for ETH.                                        *)
(***************************************************************************)
positions_params(product_id, underlying_asset) ==
    IF ~IsNone(product_id) /\ Val(product_id) # 0
    THEN << << <<"product_id", <<ToString(Val(product_id))>> >> >> >>
    ELSE IF ~IsNone(underlying_asset)
    THEN << << <<"underlying_asset_symbol", <<Val(underlying_asset)>> >> >> >>
    ELSE << << <<"underlying_asset_symbol", <<"BTC">> >> >>,
            << <<"underlying_asset_symbol", <<"ETH">> >> >> >>

\* the filters a caller can pass to get_positions
PositionProductIds == {<<>>, <<0>>, <<301>>}
PositionAssets == {<<>>, <<"BTC">>}

(***************************************************************************)
(* delta_api/products.py : ProductAPI.find_atm_options.  A product of the   *)
(* catalog carries id, contract_type, strike_price and settlement_time; a   *)
(* time is the calendar hour it falls in (year, month, day and hour as one  *)
(* number) and the minute within that hour.                                 *)
(***************************************************************************)

\* the comparison of year, month, day and hour of the two datetimes
same_hour(product_expiry_dt, expiry_dt) == product_expiry_dt.hour = expiry_dt.hour

\* option_data
option_data(product) == [strike |-> product.strike_price, product_id |-> product.id]

\* the calls (or puts) list the loop over response['result'] builds: the
\* products with a settlement time in the expiry's hour and the given
\* contract type, in catalog order
options_of(catalog, expiry_dt, contract_type) ==
    LET matches(product) ==
            /\ ~IsNone(product.settlement_time)
            /\ same_hour(Val(product.settlement_time), expiry_dt)
            /\ product.contract_type = contract_type
        kept == SelectSeq(catalog, matches)
    IN [i \in 1..Len(kept) |-> option_data(kept[i])]

\* sorted(S), ascending
RECURSIVE sorted(_)
sorted(S) ==
    IF S = {} THEN <<>>
    ELSE LET least == CHOOSE x \in S : \A y \in S : x <= y
         IN <<least>> \o sorted(S \ {least})

\* the call strikes as the catalog lists them, unsorted
all_strikes_as_listed(calls) == [i \in 1..Len(calls) |-> calls[i].strike]

\* all_strikes = sorted(set([opt['strike'] for opt in calls]))
all_strikes(calls) == sorted({ calls[i].strike : i \in 1..Len(calls) })

\* min(strikes, key=lambda x: abs(x - spot_price)): the first of the
\* elements with the least key
min_by_distance(strikes, spot_price) ==
    LET key(i) == Abs(strikes[i] - spot_price)
        first == CHOOSE i \in 1..Len(strikes) :
                     /\ \A j \in 1..Len(strikes) : key(i) <= key(j)
                     /\ \A j \in 1..(i - 1) : key(j) > key(i)
    IN strikes[first]

\* the first option of a side, whatever its strike
first_of_side(options, strike) ==
    IF options = <<>> THEN None ELSE Some(options[1])

\* next((opt for opt in options if opt['strike'] == strike), None)
first_with_strike(options, strike) ==
    LET at == SelectSeq(options, LAMBDA opt : opt.strike = strike)
    IN IF at = <<>> THEN None ELSE Some(at[1])

\* find_atm_options, given the exchange's answer to get_products and, when
\* that answer has a result, the catalog in it
find_atm_options(underlying_asset, expiry_dt, spot_price, resp, catalog) ==
    IF underlying_asset \notin UNDERLYING_SYMBOLS
    THEN Raised("ValueError", <<>>)
    ELSE LET products == GetRequest("/v2/products", resp)
             calls == options_of(catalog, expiry_dt, CONTRACT_TYPE_CALL)
             puts == options_of(catalog, expiry_dt, CONTRACT_TYPE_PUT)
         IN IF resp = "error" THEN Raised(ErrorOf(resp), <<products>>)
            ELSE IF resp = "no_result" THEN Raised("ValueError", <<products>>)
            ELSE IF calls = <<>> \/ puts = <<>>
            THEN Raised("ValueError", <<products>>)
            ELSE LET atm_strike == min_by_distance(all_strikes(calls), spot_price)
                     atm_call == first_with_strike(calls, atm_strike)
                     atm_put == first_with_strike(puts, atm_strike)
                 IN IF IsNone(atm_call) \/ IsNone(atm_put)
                    THEN Raised("ValueError", <<products>>)
                    ELSE Returned([strike |-> atm_strike,
                                   spot_price |-> spot_price,
                                   call |-> Val(atm_call),
                                   put |-> Val(atm_put)], <<products>>)

\* a settlement_time string datetime.fromisoformat rejects (ValueError)
Malformed == [hour |-> 0 - 1, minute |-> 0]
fromisoformat_fails(settlement_time) == settlement_time.hour < 0

\* int(dt.timestamp()), in minutes
timestamp_of(dt) == dt.hour * 60 + dt.minute

\* the expiries dict the loop over response['result'] fills: one entry per
\* distinct timestamp; a product without settlement_time is passed over and
\* one whose settlement_time does not parse is skipped by the except clause
expiries_of(catalog) ==
    LET usable(product) ==
            /\ ~IsNone(product.settlement_time)
            /\ ~fromisoformat_fails(Val(product.settlement_time))
        kept == SelectSeq(catalog, usable)
    IN { [timestamp |-> timestamp_of(Val(kept[i].settlement_time)),
          datetime |-> Val(kept[i].settlement_time)] : i \in 1..Len(kept) }

\* sorted(expiries.values(), key=lambda x: x['timestamp'])
sorted_expiries(catalog) ==
    LET expiries == expiries_of(catalog)
        order == sorted({ e.timestamp : e \in expiries })
    IN [i \in 1..Len(order) |->
           CHOOSE e \in expiries : e.timestamp = order[i]]

\* ProductAPI.get_available_expiries: expiries stays {} when the response
\* has no result; with a result the expiries are those of its catalog
get_available_expiries(underlying_asset, catalog, resp) ==
    IF underlying_asset \notin UNDERLYING_SYMBOLS
    THEN Raised("ValueError", <<>>)
    ELSE LET req == GetRequest("/v2/products", resp)
         IN IF resp = "error" THEN Raised(ErrorOf(resp), <<req>>)
            ELSE IF resp = "ok" THEN Returned(sorted_expiries(catalog), <<req>>)
            ELSE Returned(<<>>, <<req>>)

\* what the exchange can list, and what the resolver can be asked
At(hour, minute) == [hour |-> hour, minute |-> minute]
Product(id, contract_type, strike_price, settlement_time) ==
    [id |-> id, strike_price |-> strike_price,
     contract_type |-> contract_type, settlement_time |-> settlement_time]
ProductPool ==
    << Product(301, CONTRACT_TYPE_CALL, 1, Some(At(5, 0))),
       Product(302, CONTRACT_TYPE_PUT, 1, Some(At(5, 0))),
       Product(303, CONTRACT_TYPE_CALL, 3, Some(At(5, 0))),
       Product(304, CONTRACT_TYPE_PUT, 3, Some(At(5, 0))),
       Product(305, CONTRACT_TYPE_CALL, 2, Some(At(6, 0))),
       Product(306, CONTRACT_TYPE_PUT, 2, Some(At(5, 30))),
       Product(307, CONTRACT_TYPE_PUT, 1, None) >>
Catalogs ==
    { [i \in 1..Len(ix) |-> ProductPool[ix[i]]] :
        ix \in ListsUpTo(1..Len(ProductPool), MaxCatalog) }
\* the catalogs get_available_expiries is given: settlement times in two
\* hours, two times within one hour, no settlement time, a malformed one
ExpiryPool ==
    << ProductPool[1], ProductPool[5], ProductPool[6], ProductPool[7],
       Product(308, CONTRACT_TYPE_CALL, 2, Some(Malformed)) >>
ExpiryCatalogs ==
    { [i \in 1..Len(ix) |-> ExpiryPool[ix[i]]] :
        ix \in ListsUpTo(1..Len(ExpiryPool), MaxCatalog) }
ResolverAssets == {"BTCUSD", "XRPUSD"}
RequestedExpiries == {At(5, 0)}
SpotPrices == {0, 2, 3}

(***************************************************************************)
(* utils/context_manager.py : UserContextManager, used by handler           *)
(* coroutines that the event loop interleaves at their awaits.  A           *)
(* UserContext object is known by the order of its creation.                *)
(***************************************************************************)
UserIds == {1, 2}
Tasks == 1..NumTasks

\* a handler coroutine: the user of its update, where it stands, and the
\* UserContext it got from get_context
TaskIdle == [pc |-> "idle", user |-> 0, ref |-> None]

\* self.contexts = {} and no update being handled
RegIdle == [contexts |-> [u \in UserIds |-> None], next |-> 1,
            tasks |-> [t \in Tasks |-> TaskIdle]]

\* a registry that takes every user for a new one
is_absent_always(r, user_id) == TRUE

\* user_id not in self.contexts
is_absent(r, user_id) == IsNone(r.contexts[user_id])

\* a get_context that returns the context of user 1 to every user
get_context_of_first(r, t) ==
    LET made == IF is_absent(r, 1)
                THEN [r EXCEPT !.contexts[1] = Some(r.next),
                               !.next = r.next + 1]
                ELSE r
    IN [made EXCEPT !.tasks[t].pc = "holding",
                    !.tasks[t].ref = made.contexts[1]]

\* get_context as task t calls it: it has no await, so the check, the
\* insertion and the return are one step of the event loop
get_context(r, t) ==
    LET user_id == r.tasks[t].user
        made == IF is_absent(r, user_id)
                THEN [r EXCEPT !.contexts[user_id] = Some(r.next),
                               !.next = r.next + 1]
                ELSE r
    IN [made EXCEPT !.tasks[t].pc = "holding",
                    !.tasks[t].ref = made.contexts[user_id]]

\* remove_context: del self.contexts[user_id] when the entry exists
remove_context(r, user_id) ==
    IF ~is_absent(r, user_id) THEN [r EXCEPT !.contexts[user_id] = None] ELSE r

(***************************************************************************)
(* State                                                                    *)
(*   ctx   : the user's UserContext in the registry                         *)
(*   shown : what the last handled input rendered to the user               *)
(*   sent  : the exchange requests the last handled input made, in order    *)
(*   live  : the orders of those requests that are live at the exchange     *)
(*   steps : the number of updates the run still handles                    *)
(*   ex    : one call of the request executor (DeltaClient._make_request)   *)
(*   gw    : the last call of the order gateway: the operation, its         *)
(*           arguments, the exchange's answers and what it delivered        *)
(*   rl    : the clock and one DeltaClient's rate limiter with its caller   *)
(*   wire  : the last request as it was signed and as it was transmitted    *)
(*   reg   : the UserContextManager registry and the handler tasks using it *)
(***************************************************************************)
VARIABLES ctx, shown, sent, live, steps, ex, gw, rl, wire, reg
vars == <<ctx, shown, sent, live, steps, ex, gw, rl, wire, reg>>

\* a rendered message: its kind, the error text and the order ids it quotes
Msg(m) == [error |-> "", ids |-> <<>>, msg |-> m]
ErrMsg(m, e) == [error |-> e, ids |-> <<>>, msg |-> m]
OrderMsg(m, ids) == [error |-> "", ids |-> ids, msg |-> m]
\* a handler that returns without replying
Silent == Msg("")

GwIdle == [resps |-> <<>>, outcome |-> Returned(0, <<>>), op |-> "none", args |-> <<>>]

\* the end of a handler: context, reply and the requests it made
Finish(c, m, reqs) ==
    /\ steps > 0
    /\ steps' = steps - 1
    /\ ctx' = c
    /\ shown' = m
    /\ sent' = reqs
    /\ live' = LiveAfter(reqs)
    /\ UNCHANGED <<ex, gw, rl, wire, reg>>

(***************************************************************************)
(* The handlers.  A handler's parameters are what the update carries; the   *)
(* response of the exchange to a call is drawn where the handler makes it.  *)
(***************************************************************************)

(***************************************************************************)
(* callbacks/account.py                                                     *)
(***************************************************************************)
\* accounts: the indices account_manager holds an account for
select_account_from(accounts, account_index) ==
    IF account_index \notin accounts
    THEN Finish(ctx, Msg("invalid_account"), <<>>)
    ELSE \E resp \in Responses :
         LET c == set_account(ctx, account_index)
             wallet == GetRequest("/v2/wallet/balances", resp)
         IN IF resp = "error"
            THEN Finish(c, ErrMsg("account_details_failed", ErrorOf(resp)), <<wallet>>)
            ELSE Finish(c, Msg("main_menu"), <<wallet>>)

handle_account_selection(account_index) ==
    select_account_from({ i \in AccountChoices : Configured(i) }, account_index)

handle_main_menu ==
    IF IsNone(ctx.account_credentials)
    THEN Finish(ctx, Msg("no_account"), <<>>)
    ELSE Finish([clear_trade_data(ctx) EXCEPT !.conversation_state = NO_STATE],
                Msg("main_menu"), <<>>)

handle_back_to_accounts ==
    Finish(clear_all(ctx), Msg("select_account"), <<>>)

(***************************************************************************)
(* callbacks/expiry.py                                                      *)
(***************************************************************************)
handle_expiry_selection ==
    IF ~has_account(ctx)
    THEN Finish(ctx, Msg("no_account"), <<>>)
    ELSE Finish(clear_trade_data(ctx), Msg("select_asset"), <<>>)

handle_asset_selection(asset) ==
    LET c == [ctx EXCEPT !.selected_asset = Some(asset)]
    IN IF IsNone(c.account_credentials)
       THEN Finish(c, ErrMsg("expiries_failed", "TypeError"), <<>>)
       ELSE \E resp \in Responses :
            LET products == GetRequest("/v2/products", resp)
            IN IF resp = "error"
               THEN Finish(c, ErrMsg("expiries_failed", ErrorOf(resp)), <<products>>)
               ELSE IF resp = "no_result"
               THEN Finish(c, Msg("no_expiries"), <<products>>)
               ELSE Finish(c, Msg("select_expiry"), <<products>>)

\* spot: the answer to GET /v2/tickers/{symbol}; chain: the answer to
\* GET /v2/products; atm: what find_atm_options returns when it returns
handle_expiry_selected(asset, expiry_timestamp) ==
    LET c == [ctx EXCEPT !.selected_asset = Some(asset),
                         !.selected_expiry = Some(expiry_timestamp)]
    IN IF IsNone(c.account_credentials)
       THEN Finish(c, ErrMsg("atm_failed", "TypeError"), <<>>)
       ELSE \E spot \in Responses :
            LET ticker == GetRequest("/v2/tickers/symbol", spot)
            IN IF spot # "ok"
               THEN Finish(c, ErrMsg("atm_failed", ErrorOf(spot)), <<ticker>>)
               ELSE \E chain \in Responses, atm \in AtmResults :
                    LET products == GetRequest("/v2/products", chain)
                    IN IF chain # "ok"
                       THEN Finish(c, ErrMsg("atm_failed", ErrorOf(chain)),
                                   <<ticker, products>>)
                       ELSE IF "atm_strike" \notin DOMAIN atm
                       THEN Finish(c, ErrMsg("atm_failed", "KeyError"),
                                   <<ticker, products>>)
                       ELSE Finish([c EXCEPT
                                       !.selected_strike = Some(atm["atm_strike"]),
                                       !.call_product_id = Some(atm.call),
                                       !.put_product_id = Some(atm.put)],
                                   Msg("select_lot"), <<ticker, products>>)

(***************************************************************************)
(* callbacks/trade.py                                                       *)
(***************************************************************************)
handle_lot_selection(lot_size) ==
    Finish([ctx EXCEPT !.lot_size = Some(lot_size)], Msg("select_direction"), <<>>)

handle_custom_lot_callback ==
    Finish([ctx EXCEPT !.conversation_state = STATE_AWAITING_CUSTOM_LOT],
           Msg("enter_custom_lot"), <<>>)

handle_custom_lot_input(user_input) ==
    IF ctx.conversation_state # STATE_AWAITING_CUSTOM_LOT
    THEN Finish(ctx, Silent, <<>>)
    ELSE LET v == validate_lot_size(user_input)
         IN IF ~v.valid
            THEN Finish(ctx, Msg("invalid_input"), <<>>)
            ELSE Finish([ctx EXCEPT !.lot_size = v.value,
                                    !.conversation_state = NO_STATE],
                        Msg("select_direction"), <<>>)

\* handle_trade_direction with _show_trade_confirmation: the direction is
\* stored, then the two ticker scans are made for the reply
handle_trade_direction(direction) ==
    LET c == [ctx EXCEPT !.trade_direction = Some(direction)]
    IN IF IsNone(c.account_credentials)
       THEN Finish(c, ErrMsg("confirmation_failed", "TypeError"), <<>>)
       ELSE \E r1 \in Responses :
            LET call_prices == GetRequest("/v2/tickers", r1)
            IN IF r1 # "ok" \/ IsNone(c.call_product_id)
               THEN Finish(c, ErrMsg("confirmation_failed", "not found"),
                           <<call_prices>>)
               ELSE \E r2 \in Responses :
                    LET put_prices == GetRequest("/v2/tickers", r2)
                    IN IF r2 # "ok" \/ IsNone(c.put_product_id)
                       THEN Finish(c, ErrMsg("confirmation_failed", "not found"),
                                   <<call_prices, put_prices>>)
                       ELSE IF IsNone(c.lot_size) \/ IsNone(c.selected_expiry)
                       THEN Finish(c, ErrMsg("confirmation_failed", "TypeError"),
                                   <<call_prices, put_prices>>)
                       ELSE Finish(c, Msg("confirm_trade"),
                                   <<call_prices, put_prices>>)

handle_trade_confirmation(action) ==
    IF action = CALLBACK_CANCEL_TRADE
    THEN Finish(clear_trade_data(ctx), Msg("trade_cancelled"), <<>>)
    ELSE IF action # CALLBACK_CONFIRM_TRADE
    THEN Finish(ctx, Silent, <<>>)
    ELSE IF \/ IsNone(ctx.call_product_id) \/ IsNone(ctx.put_product_id)
            \/ IsNone(ctx.lot_size) \/ ctx.lot_size = Some(0)
            \/ IsNone(ctx.trade_direction)
    THEN Finish(ctx, Msg("missing_trade_data"), <<>>)
    ELSE IF IsNone(ctx.account_credentials)
    THEN Finish(clear_trade_data(ctx), ErrMsg("trade_failed", "TypeError"), <<>>)
    ELSE \E resps \in LegResponses :
         LET side == IF ctx.trade_direction = Some(DIRECTION_LONG)
                     THEN SIDE_BUY ELSE SIDE_SELL
             result == place_straddle_orders(Val(ctx.call_product_id),
                                             Val(ctx.put_product_id), side,
                                             Val(ctx.lot_size), resps, NewOrderIds)
         IN IF result.raised
            THEN Finish(clear_trade_data(ctx), ErrMsg("trade_failed", result.error),
                        result.reqs)
            ELSE Finish(clear_trade_data(ctx),
                        OrderMsg("trade_executed",
                                 <<Val(result.value).call_order.id,
                                   Val(result.value).put_order.id>>),
                        result.reqs)

(***************************************************************************)
(* callbacks/stoploss.py and callbacks/target.py.  The two files are the    *)
(* same handlers over the keys sl_* and target_* of temp_data; kind selects *)
(* the file.                                                                *)
(***************************************************************************)
TriggerPctState(kind) == IF kind = "sl" THEN STATE_AWAITING_SL_TRIGGER_PCT
                         ELSE STATE_AWAITING_TARGET_TRIGGER_PCT
LimitPctState(kind) == IF kind = "sl" THEN STATE_AWAITING_SL_LIMIT_PCT
                       ELSE STATE_AWAITING_TARGET_LIMIT_PCT
TriggerNumState(kind) == IF kind = "sl" THEN STATE_AWAITING_SL_TRIGGER_NUM
                         ELSE STATE_AWAITING_TARGET_TRIGGER_NUM
LimitNumState(kind) == IF kind = "sl" THEN STATE_AWAITING_SL_LIMIT_NUM
                       ELSE STATE_AWAITING_TARGET_LIMIT_NUM
InputStates(kind) == {TriggerPctState(kind), LimitPctState(kind),
                      TriggerNumState(kind), LimitNumState(kind)}

\* handle_set_stoploss / handle_set_target: get_positions() asks for the BTC
\* positions and then for the ETH positions; any: whether a position came back
handle_set_protective(kind) ==
    LET c == [ctx EXCEPT !.conversation_state = NO_STATE, !.temp_data = EmptyTemp]
    IN IF IsNone(ctx.account_credentials)
       THEN Finish(ctx, Msg("no_account"), <<>>)
       ELSE \E r1 \in Responses :
            LET btc == GetRequest("/v2/positions", r1)
            IN IF r1 = "error"
               THEN Finish(c, ErrMsg("positions_failed", ErrorOf(r1)), <<btc>>)
               ELSE \E r2 \in Responses :
                    LET eth == GetRequest("/v2/positions", r2)
                    IN IF r2 = "error"
                       THEN Finish(c, ErrMsg("positions_failed", ErrorOf(r2)),
                                   <<btc, eth>>)
                       ELSE IF r1 = "no_result" /\ r2 = "no_result"
                       THEN Finish(c, Msg("no_positions"), <<btc, eth>>)
                       ELSE \E any \in BOOLEAN :
                            Finish(c, IF any THEN Msg("select_position")
                                      ELSE Msg("no_positions"), <<btc, eth>>)

handle_position_selection(kind, position) ==
    Finish([ctx EXCEPT !.temp_data[kind].product_id = Some(position.product_id),
                       !.temp_data[kind].size = Some(position.size),
                       !.temp_data[kind].entry_price = Some(position.entry_price)],
           Msg("select_method"), <<>>)

\* a method choice that skips the trigger input
handle_method_selection_to_limit(kind, method) ==
    Finish([ctx EXCEPT !.temp_data[kind].method = Some(method),
                       !.conversation_state =
                           IF method = "percentage" THEN LimitPctState(kind)
                           ELSE LimitNumState(kind)],
           Msg("enter_limit"), <<>>)

handle_method_selection(kind, method) ==
    Finish([ctx EXCEPT !.temp_data[kind].method = Some(method),
                       !.conversation_state =
                           IF method = "percentage" THEN TriggerPctState(kind)
                           ELSE TriggerNumState(kind)],
           Msg("enter_trigger"), <<>>)

\* the keys _show_*_confirmation and handle_*_confirmation read from temp_data
HasOrderData(td) ==
    /\ ~IsNone(td.entry_price) /\ ~IsNone(td.size) /\ ~IsNone(td.method)
    /\ IF td.method = Some("percentage")
       THEN ~IsNone(td.trigger_pct) /\ ~IsNone(td.limit_pct)
       ELSE ~IsNone(td.trigger_price) /\ ~IsNone(td.limit_price)

\* _show_stoploss_confirmation / _show_target_confirmation; a missing key
\* raises KeyError into the input handler's except clause
show_confirmation(kind, c) ==
    IF HasOrderData(c.temp_data[kind]) THEN Msg("confirm_order")
    ELSE ErrMsg("input_error", "KeyError")

handle_protective_input(kind, user_input) ==
    LET state == ctx.conversation_state
        v == IF state \in {TriggerPctState(kind), LimitPctState(kind)}
             THEN validate_percentage(user_input)
             ELSE validate_price(user_input)
    IN IF state \notin InputStates(kind)
       THEN Finish(ctx, Silent, <<>>)
       ELSE IF ~v.valid
       THEN Finish(ctx, Msg("invalid_input"), <<>>)
       ELSE IF state = TriggerPctState(kind)
       THEN Finish([ctx EXCEPT !.temp_data[kind].trigger_pct = v.value,
                               !.conversation_state = LimitPctState(kind)],
                   Msg("enter_limit"), <<>>)
       ELSE IF state = LimitPctState(kind)
       THEN LET c == [ctx EXCEPT !.temp_data[kind].limit_pct = v.value,
                                 !.conversation_state = NO_STATE]
            IN Finish(c, show_confirmation(kind, c), <<>>)
       ELSE IF state = TriggerNumState(kind)
       THEN Finish([ctx EXCEPT !.temp_data[kind].trigger_price = v.value,
                               !.conversation_state = LimitNumState(kind)],
                   Msg("enter_limit"), <<>>)
       ELSE LET c == [ctx EXCEPT !.temp_data[kind].limit_price = v.value,
                                 !.conversation_state = NO_STATE]
            IN Finish(c, show_confirmation(kind, c), <<>>)

\* the side of the position itself
ProtectiveSideOfPosition(size) == IF size > 0 THEN SIDE_BUY ELSE SIDE_SELL

\* the side of the protective order for a position of the given size
ProtectiveSide(size) == IF size > 0 THEN SIDE_SELL ELSE SIDE_BUY

PriceFromPercentage(kind, entry_price, percentage, is_long) ==
    IF kind = "sl"
    THEN calculate_stop_price_from_percentage(entry_price, percentage, is_long)
    ELSE calculate_target_price_from_percentage(entry_price, percentage, is_long)

PlaceProtective(kind, product_id, side, size, stop_price, limit_price, resp, id) ==
    IF kind = "sl"
    THEN place_stop_loss_order(product_id, side, size, stop_price, limit_price,
                               TRUE, resp, id)
    ELSE place_take_profit_order(product_id, side, size, stop_price, limit_price,
                                 TRUE, resp, id)

handle_protective_confirmation(kind) ==
    LET td == ctx.temp_data[kind]
        cleared == [ctx EXCEPT !.temp_data = EmptyTemp]
    IN IF ~HasOrderData(td) \/ IsNone(td.product_id)
       THEN Finish(cleared, ErrMsg("order_failed", "KeyError"), <<>>)
       ELSE IF IsNone(ctx.account_credentials)
       THEN Finish(cleared, ErrMsg("order_failed", "TypeError"), <<>>)
       ELSE \E resp \in Responses :
            LET size == Val(td.size)
                is_long == size > 0
                pct == td.method = Some("percentage")
                stop_price ==
                    IF pct THEN PriceFromPercentage(kind, Val(td.entry_price),
                                                    Val(td.trigger_pct), is_long)
                    ELSE Val(td.trigger_price)
                limit_price ==
                    IF pct THEN PriceFromPercentage(kind, Val(td.entry_price),
                                                    Val(td.limit_pct), is_long)
                    ELSE Val(td.limit_price)
                order == PlaceProtective(kind, Val(td.product_id),
                                         ProtectiveSide(size), Abs(size),
                                         stop_price, limit_price, resp,
                                         NewOrderIds[1])
            IN IF order.raised
               THEN Finish(cleared, ErrMsg("order_failed", order.error), order.reqs)
               ELSE Finish(cleared, OrderMsg("order_placed", <<Val(order.value).id>>),
                           order.reqs)

(***************************************************************************)
(* main.py : handle_text_input                                              *)
(***************************************************************************)
handle_text_input(text) ==
    IF ctx.conversation_state = STATE_AWAITING_CUSTOM_LOT
    THEN handle_custom_lot_input(text)
    ELSE IF ctx.conversation_state \in InputStates("sl")
    THEN handle_protective_input("sl", text)
    ELSE IF ctx.conversation_state \in InputStates("target")
    THEN handle_protective_input("target", text)
    ELSE Finish(ctx, Silent, <<>>)

(***************************************************************************)
(* The session machine: one action per routed update (main.py,              *)
(* register_handlers)                                                       *)
(***************************************************************************)
AccountSelection == \E i \in AccountChoices : handle_account_selection(i)
MainMenu == handle_main_menu
BackToAccounts == handle_back_to_accounts
ExpirySelection == handle_expiry_selection
AssetSelection == \E a \in Assets : handle_asset_selection(a)
ExpirySelected ==
    \E a \in Assets, e \in ExpiryStamps : handle_expiry_selected(a, e)
LotSelection == \E l \in PREDEFINED_LOTS : handle_lot_selection(l)
CustomLotCallback == handle_custom_lot_callback
TradeDirection == \E d \in Directions : handle_trade_direction(d)
TradeConfirmation ==
    \E a \in {CALLBACK_CONFIRM_TRADE, CALLBACK_CANCEL_TRADE} :
        handle_trade_confirmation(a)
SetProtective == \E k \in Kinds : handle_set_protective(k)
PositionSelection ==
    \E k \in Kinds, p \in Positions : handle_position_selection(k, p)
MethodSelection ==
    \E k \in Kinds, m \in Methods : handle_method_selection(k, m)
ProtectiveConfirmation == \E k \in Kinds : handle_protective_confirmation(k)
TextInput == \E t \in TextInputs : handle_text_input(t)

Init ==
    /\ ctx = NewUserContext
    /\ shown = Silent
    /\ sent = <<>>
    /\ live = {}
    /\ steps = MaxSteps
    /\ ex = ExIdle
    /\ gw = GwIdle
    /\ rl = RlIdle
    /\ wire = WireIdle
    /\ reg = RegIdle

Next ==
    \/ AccountSelection
    \/ MainMenu
    \/ BackToAccounts
    \/ ExpirySelection
    \/ AssetSelection
    \/ ExpirySelected
    \/ LotSelection
    \/ CustomLotCallback
    \/ TradeDirection
    \/ TradeConfirmation
    \/ SetProtective
    \/ PositionSelection
    \/ MethodSelection
    \/ ProtectiveConfirmation
    \/ TextInput

Spec == Init /\ [][Next]_vars

(***************************************************************************)
(* The stop-loss and take-profit workflows on their own: the same handlers, *)
(* followed from account selection to the confirmation of an order          *)
(***************************************************************************)
InitProtect ==
    /\ ctx = NewUserContext
    /\ shown = Silent
    /\ sent = <<>>
    /\ live = {}
    /\ steps = MaxProtectSteps
    /\ ex = ExIdle
    /\ gw = GwIdle
    /\ rl = RlIdle
    /\ wire = WireIdle
    /\ reg = RegIdle

NextProtect ==
    \/ AccountSelection
    \/ SetProtective
    \/ PositionSelection
    \/ MethodSelection
    \/ ProtectiveConfirmation
    \/ TextInput

SpecProtect == InitProtect /\ [][NextProtect]_vars

(***************************************************************************)
(* One call of the request executor                                         *)
(***************************************************************************)
MakeRequest ==
    /\ ex.pc = "idle"
    /\ \E method \in ClientMethods :
           ex' = [ExIdle EXCEPT !.pc = "sending", !.method = method]
    /\ UNCHANGED <<ctx, shown, sent, live, steps, gw, rl, wire, reg>>

SendAttempt ==
    /\ ex.pc = "sending"
    /\ \E outcome \in AttemptOutcomes : ex' = AfterAttempt(ex, outcome)
    /\ UNCHANGED <<ctx, shown, sent, live, steps, gw, rl, wire, reg>>

InitExec ==
    /\ ctx = NewUserContext
    /\ shown = Silent
    /\ sent = <<>>
    /\ live = {}
    /\ steps = 0
    /\ ex = ExIdle
    /\ gw = GwIdle
    /\ rl = RlIdle
    /\ wire = WireIdle
    /\ reg = RegIdle

NextExec ==
    \/ MakeRequest
    \/ SendAttempt

SpecExec == InitExec /\ [][NextExec]_vars

(***************************************************************************)
(* The order gateway called directly (delta_api/orders.py : OrderAPI)       *)
(***************************************************************************)
\* a call leaves in gw what was asked and delivered, in sent the requests it
\* made and in live the orders they left at the exchange
PlaceStraddle ==
    /\ gw.op = "none"
    /\ \E call_product_id \in {301}, put_product_id \in {302},
          side \in {SIDE_BUY, SIDE_SELL}, size \in LotSizes, resps \in LegResponses :
           LET outcome == place_straddle_orders(call_product_id, put_product_id,
                                                side, size, resps, NewOrderIds)
           IN /\ gw' = [resps |-> resps, outcome |-> outcome,
                        op |-> "place_straddle_orders",
                        args |-> <<call_product_id, put_product_id, side, size>>]
              /\ sent' = outcome.reqs
              /\ live' = LiveAfter(outcome.reqs)
    /\ UNCHANGED <<ctx, shown, steps, ex, rl, wire, reg>>

PlaceBatch ==
    /\ gw.op = "none"
    /\ \E orders \in ListsOver(OrderRecords), order_type \in BatchOrderTypes :
           \E resps \in [1..Len(orders) -> Responses] :
               LET outcome == place_batch_stop_orders(orders, order_type, resps)
               IN /\ gw' = [resps |-> resps, outcome |-> outcome,
                            op |-> "place_batch_stop_orders",
                            args |-> <<orders, order_type>>]
                  /\ sent' = outcome.reqs
                  /\ live' = LiveAfter(outcome.reqs)
    /\ UNCHANGED <<ctx, shown, steps, ex, rl, wire, reg>>

InitGateway ==
    /\ ctx = NewUserContext
    /\ shown = Silent
    /\ sent = <<>>
    /\ live = {}
    /\ steps = 0
    /\ ex = ExIdle
    /\ gw = GwIdle
    /\ rl = RlIdle
    /\ wire = WireIdle
    /\ reg = RegIdle

NextGateway ==
    \/ PlaceStraddle
    \/ PlaceBatch

SpecGateway == InitGateway /\ [][NextGateway]_vars

(***************************************************************************)
(* One client making requests one after the other, against the clock        *)
(***************************************************************************)
\* time passes
Tick ==
    /\ rl.now < MaxClock
    /\ rl' = [rl EXCEPT !.now = rl.now + 1]
    /\ UNCHANGED <<ctx, shown, sent, live, steps, ex, gw, wire, reg>>

RateLimitEnter ==
    /\ rl.pc = "idle"
    /\ Len(rl.dispatched) < MaxRequests
    /\ rl' = rate_limit_enter(rl)
    /\ UNCHANGED <<ctx, shown, sent, live, steps, ex, gw, wire, reg>>

RateLimitCheck ==
    /\ rl.pc = "checked"
    /\ rl' = rate_limit_check(rl)
    /\ UNCHANGED <<ctx, shown, sent, live, steps, ex, gw, wire, reg>>

SleepReturns ==
    /\ rl.pc = "sleeping"
    /\ rl.now >= rl.wake
    /\ rl' = [rl EXCEPT !.pc = "stamping"]
    /\ UNCHANGED <<ctx, shown, sent, live, steps, ex, gw, wire, reg>>

RateLimitStamp ==
    /\ rl.pc = "stamping"
    /\ rl' = rate_limit_stamp(rl)
    /\ UNCHANGED <<ctx, shown, sent, live, steps, ex, gw, wire, reg>>

Dispatch ==
    /\ rl.pc = "prepared"
    /\ rl' = dispatch(rl)
    /\ UNCHANGED <<ctx, shown, sent, live, steps, ex, gw, wire, reg>>

\* session.request returns or raises: _make_request is left
RequestEnds ==
    /\ rl.pc = "in_flight"
    /\ rl' = [rl EXCEPT !.pc = "idle"]
    /\ UNCHANGED <<ctx, shown, sent, live, steps, ex, gw, wire, reg>>

InitRate ==
    /\ ctx = NewUserContext
    /\ shown = Silent
    /\ sent = <<>>
    /\ live = {}
    /\ steps = 0
    /\ ex = ExIdle
    /\ gw = GwIdle
    /\ rl = RlIdle
    /\ wire = WireIdle
    /\ reg = RegIdle

NextRate ==
    \/ Tick
    \/ RateLimitEnter
    \/ RateLimitCheck
    \/ SleepReturns
    \/ RateLimitStamp
    \/ Dispatch
    \/ RequestEnds

SpecRate == InitRate /\ [][NextRate]_vars

(***************************************************************************)
(* The confirmation of a protective order in percentage mode, from every    *)
(* context the input handlers can leave: a position was chosen, the method  *)
(* is percentage and both percentages passed validate_percentage.           *)
(***************************************************************************)
ConfirmPositions ==
    { [product_id |-> 301, size |-> 2, entry_price |-> Num(100000 * Scale)],
      [product_id |-> 302, size |-> 0 - 3, entry_price |-> Num(100000 * Scale)],
      [product_id |-> 301, size |-> 0 - 1, entry_price |-> Num(2000 * Scale)],
      [product_id |-> 302, size |-> 1, entry_price |-> Num(2000 * Scale)] }
\* 0.5, 5 and 10 per cent
ConfirmPercentages == { Num(Scale \div 2), Num(5 * Scale), Num(10 * Scale) }

AwaitingConfirmation(kind, position, trigger_pct, limit_pct) ==
    [set_account(NewUserContext, 1) EXCEPT
        !.temp_data[kind] =
            [EmptyProt EXCEPT !.product_id = Some(position.product_id),
                              !.size = Some(position.size),
                              !.entry_price = Some(position.entry_price),
                              !.method = Some("percentage"),
                              !.trigger_pct = Some(trigger_pct),
                              !.limit_pct = Some(limit_pct)]]

InitConfirm ==
    /\ \E kind \in Kinds, position \in ConfirmPositions,
          trigger_pct \in ConfirmPercentages, limit_pct \in ConfirmPercentages :
           ctx = AwaitingConfirmation(kind, position, trigger_pct, limit_pct)
    /\ shown = Msg("confirm_order")
    /\ sent = <<>>
    /\ live = {}
    /\ steps = 1
    /\ ex = ExIdle
    /\ gw = GwIdle
    /\ rl = RlIdle
    /\ wire = WireIdle
    /\ reg = RegIdle

NextConfirm == ProtectiveConfirmation

SpecConfirm == InitConfirm /\ [][NextConfirm]_vars

(***************************************************************************)
(* A button's callback data is created, and parsed when the button is       *)
(* pressed                                                                  *)
(***************************************************************************)
CreateCallbackData ==
    /\ gw.op = "none"
    /\ \E i \in 1..Len(ActionNames), params \in ParamLists :
           gw' = [resps |-> <<>>,
                  outcome |-> Returned(create_callback_data(ActionNames[i], params),
                                       <<>>),
                  op |-> "create_callback_data",
                  args |-> <<ActionNames[i], params>>]
    /\ UNCHANGED <<ctx, shown, sent, live, steps, ex, rl, wire, reg>>

ParseCallbackData ==
    /\ gw.op = "create_callback_data"
    /\ gw' = [gw EXCEPT !.op = "parse_callback_data",
                        !.outcome = Returned(parse_callback_data(Val(gw.outcome.value)),
                                             <<>>)]
    /\ UNCHANGED <<ctx, shown, sent, live, steps, ex, rl, wire, reg>>

InitCallback ==
    /\ ctx = NewUserContext
    /\ shown = Silent
    /\ sent = <<>>
    /\ live = {}
    /\ steps = 0
    /\ ex = ExIdle
    /\ gw = GwIdle
    /\ rl = RlIdle
    /\ wire = WireIdle
    /\ reg = RegIdle

NextCallback ==
    \/ CreateCallbackData
    \/ ParseCallbackData

SpecCallback == InitCallback /\ [][NextCallback]_vars

(***************************************************************************)
(* The validators applied to what a user can type                           *)
(***************************************************************************)
ValidatorInputs ==
    << <<"5">>, <<"0">>, <<"1">>, <<"2">>, <<"1", "0">>, <<"1", "2">>,
       <<"5", "0">>, <<"9", "9">>, <<"1", "0", "0">>, <<"1", "0", "1">>,
       <<"1", "5", "0">>, <<"5", "0", "0">>, <<"9", "9", "9">>,
       <<"1", "0", "0", "0">>, <<"1", "0", "0", "1">>, <<"1", "0", "0", "0", "0", "0", "0">>,
       <<"1", "0", "0", "0", "0", "0", "1">>, <<"-", "5">>, <<"-", "1">>,
       <<"0", ".", "5">>, <<"0", ".", "1">>, <<"5", ".", "5">>,
       <<"9", "9", ".", "9">>, <<"1", "0", "0", ".", "1">>, <<"1", "0", "0", "0", ".", "5">>,
       <<"1", "0", "0", "0", "0", "0", "0", ".", "1">>, <<"-", "0", ".", "5">>,
       <<"a", "b", "c">>, <<"5", "a">>, <<"a", "5">>, <<"-">>, <<>>,
       <<"n", "a", "n">>, <<"i", "n", "f">>, <<"-", "i", "n", "f">>,
       <<"3">>, <<"7">>, <<"2", "0">>, <<"2", "0", "0">>, <<"2", "0", "0", "0">>,
       <<"0", ".", "9">>, <<"1", ".", "5">>, <<"-", "1", "0", "0">>, <<"1", "e">>, <<"x">> >>

Validated(op, text, result) ==
    [resps |-> <<>>, outcome |-> Returned(result, <<>>), op |-> op,
     args |-> <<text>>]

ValidateLotSize ==
    /\ \E i \in 1..Len(ValidatorInputs) :
           gw' = Validated("validate_lot_size", ValidatorInputs[i],
                           validate_lot_size(ValidatorInputs[i]))
    /\ UNCHANGED <<ctx, shown, sent, live, steps, ex, rl, wire, reg>>

ValidatePercentage ==
    /\ \E i \in 1..Len(ValidatorInputs) :
           gw' = Validated("validate_percentage", ValidatorInputs[i],
                           validate_percentage(ValidatorInputs[i]))
    /\ UNCHANGED <<ctx, shown, sent, live, steps, ex, rl, wire, reg>>

ValidatePrice ==
    /\ \E i \in 1..Len(ValidatorInputs) :
           gw' = Validated("validate_price", ValidatorInputs[i],
                           validate_price(ValidatorInputs[i]))
    /\ UNCHANGED <<ctx, shown, sent, live, steps, ex, rl, wire, reg>>

InitValidate ==
    /\ ctx = NewUserContext
    /\ shown = Silent
    /\ sent = <<>>
    /\ live = {}
    /\ steps = 0
    /\ ex = ExIdle
    /\ gw = GwIdle
    /\ rl = RlIdle
    /\ wire = WireIdle
    /\ reg = RegIdle

NextValidate ==
    \/ ValidateLotSize
    \/ ValidatePercentage
    \/ ValidatePrice

SpecValidate == InitValidate /\ [][NextValidate]_vars

(***************************************************************************)
(* The confirmation of a straddle, from every context the trade handlers    *)
(* can be given: the products and the lot size stored or missing, then a    *)
(* direction button pressed and the confirmation button pressed.            *)
(***************************************************************************)
\* the directions a callback can carry: those of the two buttons, and one
\* that is neither
StoredDirections == <<DIRECTION_LONG, DIRECTION_SHORT, "sideways">>

AwaitingDirection(call_product_id, put_product_id, lot_size) ==
    [set_account(NewUserContext, 1) EXCEPT
        !.selected_asset = Some("BTCUSD"),
        !.selected_expiry = Some(1700000000),
        !.call_product_id = call_product_id,
        !.put_product_id = put_product_id,
        !.lot_size = lot_size]

StoreDirection ==
    \E i \in 1..Len(StoredDirections) : handle_trade_direction(StoredDirections[i])

InitTrade ==
    /\ \E call_product_id \in {None, Some(301)}, put_product_id \in {None, Some(302)},
          lot_size \in {None} \cup { Some(n) : n \in LotSizes } :
           ctx = AwaitingDirection(call_product_id, put_product_id, lot_size)
    /\ shown = Msg("select_direction")
    /\ sent = <<>>
    /\ live = {}
    /\ steps = 2
    /\ ex = ExIdle
    /\ gw = GwIdle
    /\ rl = RlIdle
    /\ wire = WireIdle
    /\ reg = RegIdle

NextTrade ==
    \/ StoreDirection
    \/ TradeConfirmation

SpecTrade == InitTrade /\ [][NextTrade]_vars

(***************************************************************************)
(* The lot-selection step, from the context the expiry handler leaves when  *)
(* it shows the lot keyboard: a lot button or custom text, then a direction *)
(* and the confirmation.                                                    *)
(***************************************************************************)
\* the lot sizes a select_lot callback can carry: those of the buttons, and
\* values no button carries
LotParams == <<1, 2, 5, 10, 0, 0 - 3, 1001, 5000>>
\* what a user can type as a custom lot size
LotTexts == << <<"1">>, <<"0">>, <<"7">>, <<"1", "0", "0", "0">>,
               <<"1", "0", "0", "1">>, <<"-", "5">>, <<"a", "b", "c">> >>

AwaitingLot(call_product_id, put_product_id) ==
    [set_account(NewUserContext, 1) EXCEPT
        !.selected_asset = Some("BTCUSD"),
        !.selected_expiry = Some(1700000000),
        !.call_product_id = call_product_id,
        !.put_product_id = put_product_id]

LotSelected == \E i \in 1..Len(LotParams) : handle_lot_selection(LotParams[i])
CustomLotText == \E i \in 1..Len(LotTexts) : handle_text_input(LotTexts[i])

InitLot ==
    /\ \E call_product_id \in {None, Some(301)}, put_product_id \in {None, Some(302)} :
           ctx = AwaitingLot(call_product_id, put_product_id)
    /\ shown = Msg("select_lot")
    /\ sent = <<>>
    /\ live = {}
    /\ steps = 4
    /\ ex = ExIdle
    /\ gw = GwIdle
    /\ rl = RlIdle
    /\ wire = WireIdle
    /\ reg = RegIdle

NextLot ==
    \/ LotSelected
    \/ CustomLotCallback
    \/ CustomLotText
    \/ TradeDirection
    \/ TradeConfirmation

SpecLot == InitLot /\ [][NextLot]_vars

(***************************************************************************)
(* callbacks/position.py, callbacks/orders.py, callbacks/account.py : the   *)
(* handlers that show positions, orders and account details and that cancel *)
(* orders.  None of them assigns to the user's context.                     *)
(***************************************************************************)
\* get_positions() asks for the BTC and then for the ETH positions; when a
\* position came back (any) the tickers are fetched for the mark prices
handle_show_positions ==
    IF ~has_account(ctx)
    THEN Finish(ctx, Msg("no_account"), <<>>)
    ELSE \E r1 \in Responses :
         LET btc == GetRequest("/v2/positions", r1)
         IN IF r1 = "error"
            THEN Finish(ctx, ErrMsg("open_positions_failed", ErrorOf(r1)), <<btc>>)
            ELSE \E r2 \in Responses :
                 LET eth == GetRequest("/v2/positions", r2)
                 IN IF r2 = "error"
                    THEN Finish(ctx, ErrMsg("open_positions_failed", ErrorOf(r2)),
                                <<btc, eth>>)
                    ELSE IF r1 = "no_result" /\ r2 = "no_result"
                    THEN Finish(ctx, Msg("no_open_positions"), <<btc, eth>>)
                    ELSE \E any \in BOOLEAN, r3 \in Responses :
                         LET tickers == GetRequest("/v2/tickers", r3)
                         IN IF ~any
                            THEN Finish(ctx, Msg("no_open_positions"), <<btc, eth>>)
                            ELSE IF r3 = "error"
                            THEN Finish(ctx, ErrMsg("open_positions_failed",
                                                    ErrorOf(r3)),
                                        <<btc, eth, tickers>>)
                            ELSE Finish(ctx, Msg("open_positions"),
                                        <<btc, eth, tickers>>)

\* get_open_orders() and get_pending_orders() are one GET /v2/orders each;
\* any: whether an order came back
handle_show_orders ==
    IF ~has_account(ctx)
    THEN Finish(ctx, Msg("no_account"), <<>>)
    ELSE \E r1 \in Responses :
         LET open_orders == GetRequest("/v2/orders", r1)
         IN IF r1 = "error"
            THEN Finish(ctx, ErrMsg("orders_failed", ErrorOf(r1)), <<open_orders>>)
            ELSE \E r2 \in Responses :
                 LET pending_orders == GetRequest("/v2/orders", r2)
                 IN IF r2 = "error"
                    THEN Finish(ctx, ErrMsg("orders_failed", ErrorOf(r2)),
                                <<open_orders, pending_orders>>)
                    ELSE IF r1 = "no_result" /\ r2 = "no_result"
                    THEN Finish(ctx, Msg("no_orders"), <<open_orders, pending_orders>>)
                    ELSE \E any \in BOOLEAN :
                         Finish(ctx, IF any THEN Msg("orders") ELSE Msg("no_orders"),
                                <<open_orders, pending_orders>>)

handle_account_details ==
    IF IsNone(ctx.account_credentials)
    THEN Finish(ctx, Msg("no_account"), <<>>)
    ELSE \E resp \in Responses :
         LET wallet == GetRequest("/v2/wallet/balances", resp)
         IN IF resp = "error"
            THEN Finish(ctx, ErrMsg("summary_failed", ErrorOf(resp)), <<wallet>>)
            ELSE Finish(ctx, Msg("summary"), <<wallet>>)

\* account_credentials['api_key'] of a context without an account raises
\* TypeError inside the try block, before the client exists
handle_cancel_order(order_id) ==
    IF IsNone(ctx.account_credentials)
    THEN Finish(ctx, ErrMsg("cancel_failed", "TypeError"), <<>>)
    ELSE \E resp \in Responses :
         LET result == cancel_order(order_id, resp)
         IN IF result.raised
            THEN Finish(ctx, ErrMsg("cancel_failed", result.error), result.reqs)
            ELSE Finish(ctx, OrderMsg("order_cancelled", <<order_id>>), result.reqs)

\* OrderAPI.cancel_all_orders() without a product filter
cancel_all_orders(resp) ==
    LET req == Request("DELETE", "/v2/orders/all", NoBody, resp, None)
    IN IF resp = "error" THEN Raised(ErrorOf(resp), <<req>>)
       ELSE Returned(0, <<req>>)

handle_cancel_all_orders ==
    IF IsNone(ctx.account_credentials)
    THEN Finish(ctx, ErrMsg("cancel_all_failed", "TypeError"), <<>>)
    ELSE \E resp \in Responses :
         LET result == cancel_all_orders(resp)
         IN IF result.raised
            THEN Finish(ctx, ErrMsg("cancel_all_failed", result.error), result.reqs)
            ELSE Finish(ctx, Msg("all_orders_cancelled"), result.reqs)

ShowPositions == handle_show_positions
ShowOrders == handle_show_orders
AccountDetails == handle_account_details
CancelOrder == \E order_id \in {11, 12} : handle_cancel_order(order_id)
CancelAllOrders == handle_cancel_all_orders

(***************************************************************************)
(* A workflow that has collected data, interrupted: from every stage of the *)
(* stop-loss and target workflows after the position was chosen, and from   *)
(* the trade workflow with its products, lot size and direction stored, an  *)
(* action of another part of the menu and then a confirmation.              *)
(***************************************************************************)
\* the context after the position was chosen, after the method was chosen,
\* after the trigger was entered and after the limit was entered
ProtectiveStages == <<"position", "method", "trigger", "limit">>

CollectingProtective(kind, position, method, stage) ==
    LET pct == method = "percentage"
        chosen == [EmptyProt EXCEPT !.product_id = Some(position.product_id),
                                    !.size = Some(position.size),
                                    !.entry_price = Some(position.entry_price)]
        with_method == [chosen EXCEPT !.method = Some(method)]
        with_trigger ==
            IF pct THEN [with_method EXCEPT !.trigger_pct = Some(Num(5 * Scale))]
            ELSE [with_method EXCEPT !.trigger_price = Some(Num(900 * Scale))]
        with_limit ==
            IF pct THEN [with_trigger EXCEPT !.limit_pct = Some(Num(5 * Scale))]
            ELSE [with_trigger EXCEPT !.limit_price = Some(Num(890 * Scale))]
    IN [set_account(NewUserContext, 1) EXCEPT
           !.temp_data[kind] =
               IF stage = "position" THEN chosen
               ELSE IF stage = "method" THEN with_method
               ELSE IF stage = "trigger" THEN with_trigger
               ELSE with_limit,
           !.conversation_state =
               IF stage = "method"
               THEN (IF pct THEN TriggerPctState(kind) ELSE TriggerNumState(kind))
               ELSE IF stage = "trigger"
               THEN (IF pct THEN LimitPctState(kind) ELSE LimitNumState(kind))
               ELSE NO_STATE]

AwaitingTradeConfirmation(lot_size, direction) ==
    [AwaitingDirection(Some(301), Some(302), Some(lot_size)) EXCEPT
        !.trade_direction = Some(direction)]

InitInterrupted ==
    /\ \/ \E kind \in Kinds, position \in Positions, method \in Methods,
             i \in 1..Len(ProtectiveStages) :
              ctx = CollectingProtective(kind, position, method, ProtectiveStages[i])
       \/ \E lot_size \in LotSizes, direction \in Directions :
              ctx = AwaitingTradeConfirmation(lot_size, direction)
    /\ shown = Silent
    /\ sent = <<>>
    /\ live = {}
    /\ steps = 2
    /\ ex = ExIdle
    /\ gw = GwIdle
    /\ rl = RlIdle
    /\ wire = WireIdle
    /\ reg = RegIdle

NextInterrupted ==
    \/ ShowPositions
    \/ ShowOrders
    \/ AccountDetails
    \/ ExpirySelection
    \/ SetProtective
    \/ TradeConfirmation
    \/ ProtectiveConfirmation

SpecInterrupted == InitInterrupted /\ [][NextInterrupted]_vars

(***************************************************************************)
(* One confirmation action delivered more than once for one session.  Each  *)
(* webhook POST runs the handler as a coroutine of its own (main.py,        *)
(* WebhookHandler.post); the event loop switches between the coroutines at  *)
(* their awaits, and a step below is the code between two awaits.  The      *)
(* OrderAPI calls are blocking calls without an await.                      *)
(*   sent, live : the requests of all the deliveries, and the live orders   *)
(*   reg        : the action delivered and the coroutines handling it       *)
(***************************************************************************)
ConfirmActions == <<"sl", "target", "trade">>
ConfirmIdle == [pc |-> "idle", locals |-> None]
\* the ids the exchange assigns to the orders of coroutine t
OrderIdsOf(t) == <<30 + 2 * t, 31 + 2 * t>>

\* what handle_stoploss_confirmation / handle_target_confirmation compute
\* from temp_data before their first reply
confirmation_order(kind, td) ==
    LET size == Val(td.size)
        is_long == size > 0
        pct == td.method = Some("percentage")
    IN [product_id |-> Val(td.product_id), size |-> Abs(size),
        side |-> ProtectiveSide(size),
        stop_price |-> IF pct THEN PriceFromPercentage(kind, Val(td.entry_price),
                                                       Val(td.trigger_pct), is_long)
                       ELSE Val(td.trigger_price),
        limit_price |-> IF pct THEN PriceFromPercentage(kind, Val(td.entry_price),
                                                        Val(td.limit_pct), is_long)
                        ELSE Val(td.limit_price)]

\* the four values handle_trade_confirmation requires to be truthy
has_trade_data(c) ==
    ~(\/ IsNone(c.call_product_id) \/ IsNone(c.put_product_id)
      \/ IsNone(c.lot_size) \/ c.lot_size = Some(0)
      \/ IsNone(c.trade_direction))

\* the update arrives and the handler runs up to "await query.answer()"
ConfirmDelivered ==
    /\ \E t \in Tasks :
           /\ reg.tasks[t].pc = "idle"
           /\ reg' = [reg EXCEPT !.tasks[t].pc = "answered"]
    /\ UNCHANGED <<ctx, shown, sent, live, steps, ex, gw, rl, wire>>

\* from get_context to the next await: the protective handlers read
\* temp_data into locals and announce the order; a missing key raises into
\* the except clause, which awaits its reply.  The trade handler tests its
\* four values and announces the execution, or replies that data is missing
\* and returns.
ConfirmChecks ==
    /\ \E t \in Tasks :
           /\ reg.tasks[t].pc = "answered"
           /\ IF reg.action = "trade"
              THEN IF has_trade_data(ctx)
                   THEN /\ reg' = [reg EXCEPT !.tasks[t].pc = "announced"]
                        /\ shown' = Msg("executing")
                   ELSE /\ reg' = [reg EXCEPT !.tasks[t].pc = "done"]
                        /\ shown' = Msg("missing_trade_data")
              ELSE LET td == ctx.temp_data[reg.action]
                   IN IF ~HasOrderData(td) \/ IsNone(td.product_id)
                      THEN /\ reg' = [reg EXCEPT !.tasks[t].pc = "failed"]
                           /\ shown' = ErrMsg("order_failed", "KeyError")
                      ELSE /\ reg' = [reg EXCEPT
                                         !.tasks[t].pc = "announced",
                                         !.tasks[t].locals =
                                             Some(confirmation_order(reg.action, td))]
                           /\ shown' = Msg("placing")
    /\ UNCHANGED <<ctx, sent, live, steps, ex, gw, rl, wire>>

\* from the announcement to the reply that reports the outcome: the order
\* is placed from the locals (protective) or from the context as it is now
\* (trade).  A straddle whose values another coroutine has cleared meanwhile
\* is sent with null fields; the exchange is taken to reject it.
ConfirmPlaces ==
    /\ \E t \in Tasks, resps \in LegResponses :
           /\ reg.tasks[t].pc = "announced"
           /\ LET side == IF ctx.trade_direction = Some(DIRECTION_LONG)
                          THEN SIDE_BUY ELSE SIDE_SELL
                  o == Val(reg.tasks[t].locals)
                  outcome ==
                      IF reg.action = "trade"
                      THEN IF has_trade_data(ctx)
                           THEN place_straddle_orders(Val(ctx.call_product_id),
                                                      Val(ctx.put_product_id), side,
                                                      Val(ctx.lot_size), resps,
                                                      OrderIdsOf(t))
                           ELSE Raised(ErrorOf("error"),
                                       <<Request("POST", "/v2/orders",
                                                 [NoBody EXCEPT
                                                     !.side = side,
                                                     !.order_type = ORDER_TYPE_MARKET],
                                                 "error", None)>>)
                      ELSE PlaceProtective(reg.action, o.product_id, o.side, o.size,
                                           o.stop_price, o.limit_price, resps[1],
                                           OrderIdsOf(t)[1])
              IN /\ sent' = sent \o outcome.reqs
                 /\ live' = live \cup LiveAfter(outcome.reqs)
                 /\ reg' = [reg EXCEPT !.tasks[t].pc =
                                IF outcome.raised THEN "failed" ELSE "replied"]
                 /\ shown' = IF outcome.raised
                             THEN ErrMsg("order_failed", outcome.error)
                             ELSE Msg("order_placed")
    /\ UNCHANGED <<ctx, steps, ex, gw, rl, wire>>

\* after the last reply: temp_data = {} or clear_trade_data()
ConfirmEnds ==
    /\ \E t \in Tasks :
           /\ reg.tasks[t].pc \in {"replied", "failed"}
           /\ reg' = [reg EXCEPT !.tasks[t].pc = "done"]
           /\ ctx' = IF reg.action = "trade" THEN clear_trade_data(ctx)
                     ELSE [ctx EXCEPT !.temp_data = EmptyTemp]
    /\ UNCHANGED <<shown, sent, live, steps, ex, gw, rl, wire>>

InitDouble ==
    /\ \E i \in 1..Len(ConfirmActions) :
           /\ reg = [action |-> ConfirmActions[i], tasks |-> [t \in Tasks |-> ConfirmIdle]]
           /\ IF ConfirmActions[i] = "trade"
              THEN \E lot_size \in LotSizes, direction \in Directions :
                       ctx = AwaitingTradeConfirmation(lot_size, direction)
              ELSE \E position \in Positions, method \in Methods :
                       ctx = CollectingProtective(ConfirmActions[i], position, method,
                                                  "limit")
    /\ shown = Msg("confirm_order")
    /\ sent = <<>>
    /\ live = {}
    /\ steps = 0
    /\ ex = ExIdle
    /\ gw = GwIdle
    /\ rl = RlIdle
    /\ wire = WireIdle

NextDouble ==
    \/ ConfirmDelivered
    \/ ConfirmChecks
    \/ ConfirmPlaces
    \/ ConfirmEnds

SpecDouble == InitDouble /\ [][NextDouble]_vars

(***************************************************************************)
(* One call of an order-placement operation, with the exchange behind it.   *)
(* Each attempt of the executor transmits the same POST /v2/orders; the     *)
(* body the operations build carries product, side, size, type and prices   *)
(* and nothing that names the call, so the exchange creates an order for    *)
(* every attempt it accepts.                                                *)
(*   ex   : the call of the request executor                                *)
(*   gw   : the operation called                                            *)
(*   live : the orders the exchange has created for the call                *)
(***************************************************************************)
PlacementOperations ==
    <<"place_market_order", "place_stop_loss_order", "place_take_profit_order">>
\* the id the exchange assigns to the order it creates on attempt n
AttemptOrderId(n) == 40 + n

\* what the client can observe of an attempt the exchange accepted: the
\* success response, a response lost to a read timeout, or a 5xx answer
\* produced after the order was created
SeenWhenCreated(outcome) ==
    \/ outcome.kind = "read_timeout"
    \/ outcome.kind = "response" /\ (outcome.code < 300 \/ outcome.code >= 500)
\* a success response is given only for an order that was created
SeenOnlyWhenCreated(outcome) == outcome.kind = "response" /\ outcome.code < 300

PlaceOrderCall ==
    /\ ex.pc = "idle"
    /\ gw.op = "none"
    /\ \E i \in 1..Len(PlacementOperations) :
           gw' = [GwIdle EXCEPT !.op = PlacementOperations[i]]
    /\ ex' = [ExIdle EXCEPT !.pc = "sending", !.method = "POST"]
    /\ UNCHANGED <<ctx, shown, sent, live, steps, rl, wire, reg>>

OrderAttempt ==
    /\ ex.pc = "sending"
    /\ \E outcome \in AttemptOutcomes, created \in BOOLEAN :
           /\ created => SeenWhenCreated(outcome)
           /\ SeenOnlyWhenCreated(outcome) => created
           /\ ex' = AfterAttempt(ex, outcome)
           /\ live' = IF created
                      THEN live \cup {AttemptOrderId(Len(ex.attempts) + 1)}
                      ELSE live
    /\ UNCHANGED <<ctx, shown, sent, steps, gw, rl, wire, reg>>

InitPlacement ==
    /\ ctx = NewUserContext
    /\ shown = Silent
    /\ sent = <<>>
    /\ live = {}
    /\ steps = 0
    /\ ex = ExIdle
    /\ gw = GwIdle
    /\ rl = RlIdle
    /\ wire = WireIdle
    /\ reg = RegIdle

NextPlacement ==
    \/ PlaceOrderCall
    \/ OrderAttempt

SpecPlacement == InitPlacement /\ [][NextPlacement]_vars

(***************************************************************************)
(* The confirmation summary and the order placed on confirmation            *)
(* (callbacks/stoploss.py, callbacks/target.py).  The summary is a message  *)
(* of its own and stays on the screen with its Confirm button; the position *)
(* and method keyboards of earlier messages stay usable as well.  The       *)
(* session starts with the summary just shown, and gw.args keeps what it    *)
(* displayed.  A further summary takes a method choice and two inputs, so   *)
(* within the three updates of a session the one on the screen at a         *)
(* confirmation is the one the session started with.                        *)
(***************************************************************************)
\* what _show_stoploss_confirmation / _show_target_confirmation display for
\* the selected position: its size, the trigger price and the limit price
confirmation_summary(kind, td) ==
    LET size == Val(td.size)
        is_long == size > 0
    IN [product_id |-> Val(td.product_id), size |-> Abs(size),
        stop_price |-> IF td.method = Some("percentage")
                       THEN PriceFromPercentage(kind, Val(td.entry_price),
                                                Val(td.trigger_pct), is_long)
                       ELSE Val(td.trigger_price),
        limit_price |-> IF td.method = Some("percentage")
                        THEN PriceFromPercentage(kind, Val(td.entry_price),
                                                 Val(td.limit_pct), is_long)
                        ELSE Val(td.limit_price)]

InitSummary ==
    /\ \E kind \in Kinds, position \in Positions, method \in Methods :
           /\ ctx = CollectingProtective(kind, position, method, "limit")
           /\ gw = [GwIdle EXCEPT
                       !.op = kind,
                       !.args = <<confirmation_summary(kind, ctx.temp_data[kind])>>]
    /\ shown = Msg("confirm_order")
    /\ sent = <<>>
    /\ live = {}
    /\ steps = 3
    /\ ex = ExIdle
    /\ rl = RlIdle
    /\ wire = WireIdle
    /\ reg = RegIdle

NextSummary ==
    \/ PositionSelection
    \/ MethodSelection
    \/ TextInput
    \/ ProtectiveConfirmation

SpecSummary == InitSummary /\ [][NextSummary]_vars

(***************************************************************************)
(* Every routed handler, from a session that has not selected an account    *)
(* (main.py, register_handlers).  Account selection and the return to the   *)
(* account list move the session between having and not having credentials. *)
(***************************************************************************)
InitAccountless ==
    /\ ctx = NewUserContext
    /\ shown = Silent
    /\ sent = <<>>
    /\ live = {}
    /\ steps = 3
    /\ ex = ExIdle
    /\ gw = GwIdle
    /\ rl = RlIdle
    /\ wire = WireIdle
    /\ reg = RegIdle

NextAccountless ==
    \/ AccountSelection
    \/ MainMenu
    \/ BackToAccounts
    \/ ExpirySelection
    \/ AssetSelection
    \/ ExpirySelected
    \/ LotSelection
    \/ CustomLotCallback
    \/ TradeDirection
    \/ TradeConfirmation
    \/ SetProtective
    \/ PositionSelection
    \/ MethodSelection
    \/ ProtectiveConfirmation
    \/ TextInput
    \/ ShowPositions
    \/ ShowOrders
    \/ AccountDetails
    \/ CancelOrder
    \/ CancelAllOrders

SpecAccountless == InitAccountless /\ [][NextAccountless]_vars

(***************************************************************************)
(* A deployment in which every account of the list is configured.  The      *)
(* session starts with the data of a protective order or of a straddle      *)
(* collected under one account; gw.args keeps that account.  The user can   *)
(* select an account again from the account list of an earlier message,     *)
(* return to the menu or to the account list, and press the Confirm button  *)
(* of the summary.                                                          *)
(***************************************************************************)
\* the context c with the given account selected in place of its own
UnderAccount(c, account_index) ==
    [c EXCEPT !.account_index = Some(account_index),
              !.account_credentials = Some(account_index)]

AccountSwitch ==
    \E i \in AccountChoices : select_account_from(AccountChoices, i)

InitAccounts ==
    /\ \E a \in AccountChoices :
           /\ \/ \E kind \in Kinds, position \in Positions, method \in Methods :
                     ctx = UnderAccount(CollectingProtective(kind, position,
                                                             method, "limit"), a)
              \/ \E lot_size \in LotSizes, direction \in Directions :
                     ctx = UnderAccount(AwaitingTradeConfirmation(lot_size,
                                                                  direction), a)
           /\ gw = [GwIdle EXCEPT !.op = "collected", !.args = <<a>>]
    /\ shown = Silent
    /\ sent = <<>>
    /\ live = {}
    /\ steps = 3
    /\ ex = ExIdle
    /\ rl = RlIdle
    /\ wire = WireIdle
    /\ reg = RegIdle

NextAccounts ==
    \/ AccountSwitch
    \/ MainMenu
    \/ BackToAccounts
    \/ ProtectiveConfirmation
    \/ TradeConfirmation

SpecAccounts == InitAccounts /\ [][NextAccounts]_vars

(***************************************************************************)
(* The prices of a protective order, from the method choice to the          *)
(* confirmation: the trigger and the limit are typed by the user, pass      *)
(* validate_percentage or validate_price, and the confirmation computes the *)
(* prices that are sent (callbacks/stoploss.py, callbacks/target.py).        *)
(***************************************************************************)
\* texts typed as trigger and limit: 100, 5, 0, 900 and 0.5
PriceTexts == << <<"1", "0", "0">>, <<"5">>, <<"0">>, <<"9", "0", "0">>,
                 <<"0", ".", "5">> >>

PriceInput == \E i \in 1..Len(PriceTexts) : handle_text_input(PriceTexts[i])

InitPrices ==
    /\ \E kind \in Kinds, position \in Positions, method \in Methods :
           ctx = CollectingProtective(kind, position, method, "method")
    /\ shown = Msg("enter_trigger")
    /\ sent = <<>>
    /\ live = {}
    /\ steps = 3
    /\ ex = ExIdle
    /\ gw = GwIdle
    /\ rl = RlIdle
    /\ wire = WireIdle
    /\ reg = RegIdle

NextPrices ==
    \/ PriceInput
    \/ ProtectiveConfirmation

SpecPrices == InitPrices /\ [][NextPrices]_vars

(***************************************************************************)
(* The client's verbs called directly (DeltaClient.get / post / delete)      *)
(***************************************************************************)
ClientGet ==
    /\ \E i \in 1..Len(GetPaths), params \in OptionalDicts(ParamPool) :
           wire' = make_request("GET", GetPaths[i], params, None)
    /\ UNCHANGED <<ctx, shown, sent, live, steps, ex, gw, rl, reg>>

\* PositionAPI.get_positions: self.client.get('/v2/positions', params=params),
\* one of the requests the call makes
PositionsGet ==
    /\ \E product_id \in PositionProductIds, underlying_asset \in PositionAssets :
           LET calls == positions_params(product_id, underlying_asset)
           IN \E i \in 1..Len(calls) :
                  wire' = make_request("GET", "/v2/positions", Some(calls[i]), None)
    /\ UNCHANGED <<ctx, shown, sent, live, steps, ex, gw, rl, reg>>

ClientPost ==
    /\ \E i \in 1..Len(PostPaths), data \in OptionalDicts(DataPool) :
           wire' = make_request("POST", PostPaths[i], None, data)
    /\ UNCHANGED <<ctx, shown, sent, live, steps, ex, gw, rl, reg>>

ClientDelete ==
    /\ \E i \in 1..Len(DeletePaths), data \in OptionalDicts(DataPool) :
           wire' = make_request("DELETE", DeletePaths[i], None, data)
    /\ UNCHANGED <<ctx, shown, sent, live, steps, ex, gw, rl, reg>>

InitSign ==
    /\ ctx = NewUserContext
    /\ shown = Silent
    /\ sent = <<>>
    /\ live = {}
    /\ steps = 0
    /\ ex = ExIdle
    /\ gw = GwIdle
    /\ rl = RlIdle
    /\ wire = WireIdle
    /\ reg = RegIdle

NextSign ==
    \/ ClientGet
    \/ PositionsGet
    \/ ClientPost
    \/ ClientDelete

SpecSign == InitSign /\ [][NextSign]_vars

(***************************************************************************)
(* The resolver called directly (delta_api/products.py : ProductAPI)        *)
(***************************************************************************)
FindAtmOptions ==
    /\ gw.op = "none"
    /\ \E underlying_asset \in ResolverAssets, expiry_dt \in RequestedExpiries,
          spot_price \in SpotPrices, resp \in Responses :
           \E catalog \in IF resp = "ok" THEN Catalogs ELSE {<<>>} :
               LET outcome == find_atm_options(underlying_asset, expiry_dt,
                                               spot_price, resp, catalog)
               IN /\ gw' = [resps |-> <<resp, catalog>>, outcome |-> outcome,
                            op |-> "find_atm_options",
                            args |-> <<underlying_asset, expiry_dt, spot_price>>]
                  /\ sent' = outcome.reqs
    /\ UNCHANGED <<ctx, shown, live, steps, ex, rl, wire, reg>>

InitResolver ==
    /\ ctx = NewUserContext
    /\ shown = Silent
    /\ sent = <<>>
    /\ live = {}
    /\ steps = 0
    /\ ex = ExIdle
    /\ gw = GwIdle
    /\ rl = RlIdle
    /\ wire = WireIdle
    /\ reg = RegIdle

NextResolver == FindAtmOptions

SpecResolver == InitResolver /\ [][NextResolver]_vars

(***************************************************************************)
(* Handler coroutines sharing the registry.  The webhook starts one         *)
(* coroutine per update (main.py, WebhookHandler.post); a coroutine runs    *)
(* until its next await, where another may run.                             *)
(***************************************************************************)
\* an update of user u arrives and its handler starts: it runs up to
\* "await query.answer()"
Receive ==
    /\ \E t \in Tasks, u \in UserIds :
           /\ reg.tasks[t].pc = "idle"
           /\ reg' = [reg EXCEPT !.tasks[t] = [pc |-> "received", user |-> u,
                                               ref |-> None]]
    /\ UNCHANGED <<ctx, shown, sent, live, steps, ex, gw, rl, wire>>

\* user_context = context_manager.get_context(user_id)
GetContext ==
    /\ \E t \in Tasks :
           /\ reg.tasks[t].pc = "received"
           /\ reg' = get_context(reg, t)
    /\ UNCHANGED <<ctx, shown, sent, live, steps, ex, gw, rl, wire>>

\* the handler works on its context, awaits its replies and ends
Reply ==
    /\ \E t \in Tasks :
           /\ reg.tasks[t].pc = "holding"
           /\ reg' = [reg EXCEPT !.tasks[t] = TaskIdle]
    /\ UNCHANGED <<ctx, shown, sent, live, steps, ex, gw, rl, wire>>

\* context_manager.remove_context(user_id), while the run may still create
\* a context for every user that has none
RemoveContext ==
    /\ \E u \in UserIds :
           /\ ~is_absent(reg, u)
           /\ reg.next + Cardinality({ v \in UserIds : is_absent(reg, v) })
                  <= MaxObjects
           /\ reg' = remove_context(reg, u)
    /\ UNCHANGED <<ctx, shown, sent, live, steps, ex, gw, rl, wire>>

InitRegistry ==
    /\ ctx = NewUserContext
    /\ shown = Silent
    /\ sent = <<>>
    /\ live = {}
    /\ steps = 0
    /\ ex = ExIdle
    /\ gw = GwIdle
    /\ rl = RlIdle
    /\ wire = WireIdle
    /\ reg = RegIdle

NextRegistry ==
    \/ Receive
    \/ GetContext
    \/ Reply
    \/ RemoveContext

SpecRegistry == InitRegistry /\ [][NextRegistry]_vars

(***************************************************************************)
(* The sessions of several users.  reg.objects holds the UserContext        *)
(* objects by the order of their creation and reg.contexts the object of    *)
(* each user; a handler works on the object get_context returned for the    *)
(* user of its update (user_id = update.effective_user.id in every          *)
(* handler), which is ctx while the handler holds it.  Updates of           *)
(* different users arrive in any order, and the handlers of one user run    *)
(* between the arrival and the handling of another user's update.           *)
(***************************************************************************)
\* the session of a user that has one
SessionOf(r, user_id) == r.objects[Val(r.contexts[user_id])]

\* some handler holds its context
Holding == \E t \in Tasks : reg.tasks[t].pc = "holding"

\* user_context = context_manager.get_context(user_id): the handler of task
\* t gets the object of its user
Fetch ==
    /\ ~Holding
    /\ \E t \in Tasks :
           /\ reg.tasks[t].pc = "received"
           /\ reg' = get_context(reg, t)
           /\ ctx' = reg'.objects[Val(reg'.tasks[t].ref)]
    /\ UNCHANGED <<shown, sent, live, steps, ex, gw, rl, wire>>

\* the handler ends; what it did to its UserContext is what it did to the
\* object in the registry
Return ==
    /\ \E t \in Tasks :
           /\ reg.tasks[t].pc = "holding"
           /\ reg' = [reg EXCEPT !.objects[Val(reg.tasks[t].ref)] = ctx,
                                 !.tasks[t] = TaskIdle]
    /\ UNCHANGED <<ctx, shown, sent, live, steps, ex, gw, rl, wire>>

InitUsers ==
    /\ ctx = NewUserContext
    /\ shown = Silent
    /\ sent = <<>>
    /\ live = {}
    /\ steps = 2
    /\ ex = ExIdle
    /\ gw = GwIdle
    /\ rl = RlIdle
    /\ wire = WireIdle
    /\ reg = [contexts |-> [u \in UserIds |-> None], next |-> 1,
              tasks |-> [t \in Tasks |-> TaskIdle],
              objects |-> [o \in 1..MaxObjects |-> NewUserContext]]

NextUsers ==
    \/ Receive
    \/ Fetch
    \/ Holding /\ AccountSelection
    \/ Holding /\ BackToAccounts
    \/ Holding /\ PositionSelection
    \/ Holding /\ MethodSelection
    \/ Holding /\ TextInput
    \/ Return

SpecUsers == InitUsers /\ [][NextUsers]_vars

(***************************************************************************)
(* The single exchange operations called directly                           *)
(***************************************************************************)
\* gw after a call answered with resp
Called(op, args, resp, outcome) ==
    [resps |-> <<resp>>, outcome |-> outcome, op |-> op, args |-> args]

PlaceMarketOrder ==
    /\ gw.op = "none"
    /\ \E product_id \in {301, 302}, side \in {SIDE_BUY, SIDE_SELL},
          size \in OrderSizes, resp \in Responses :
           LET outcome == place_market_order(product_id, side, size, resp,
                                             NewOrderIds[1])
           IN /\ gw' = Called("place_market_order", <<product_id, side, size>>,
                              resp, outcome)
              /\ sent' = outcome.reqs
    /\ UNCHANGED <<ctx, shown, live, steps, ex, rl, wire, reg>>

PlaceLimitOrder ==
    /\ gw.op = "none"
    /\ \E product_id \in {301, 302}, side \in {SIDE_BUY, SIDE_SELL},
          size \in OrderSizes, limit_price \in LimitPrices, resp \in Responses :
           LET outcome == place_limit_order(product_id, side, size, limit_price,
                                            resp, NewOrderIds[1])
           IN /\ gw' = Called("place_limit_order",
                              <<product_id, side, size, limit_price>>,
                              resp, outcome)
              /\ sent' = outcome.reqs
    /\ UNCHANGED <<ctx, shown, live, steps, ex, rl, wire, reg>>

GetOrders ==
    /\ gw.op = "none"
    /\ \E result \in Listings, resp \in Responses :
           LET outcome == get_orders(result, resp)
           IN /\ gw' = Called("get_orders", <<result>>, resp, outcome)
              /\ sent' = outcome.reqs
    /\ UNCHANGED <<ctx, shown, live, steps, ex, rl, wire, reg>>

GetPositions ==
    /\ gw.op = "none"
    /\ \E result \in Listings, resp \in Responses :
           LET outcome == get_positions(result, resp)
           IN /\ gw' = Called("get_positions", <<result>>, resp, outcome)
              /\ sent' = outcome.reqs
    /\ UNCHANGED <<ctx, shown, live, steps, ex, rl, wire, reg>>

GetAvailableExpiries ==
    /\ gw.op = "none"
    /\ \E underlying_asset \in ResolverAssets, catalog \in ExpiryCatalogs,
          resp \in Responses :
           LET outcome == get_available_expiries(underlying_asset, catalog, resp)
           IN /\ gw' = Called("get_available_expiries",
                              <<underlying_asset, catalog>>, resp, outcome)
              /\ sent' = outcome.reqs
    /\ UNCHANGED <<ctx, shown, live, steps, ex, rl, wire, reg>>

GetAccountSummary ==
    /\ gw.op = "none"
    /\ \E result \in Listings, resp \in Responses :
           LET outcome == get_account_summary(result, resp)
           IN /\ gw' = Called("get_account_summary", <<result>>, resp, outcome)
              /\ sent' = outcome.reqs
    /\ UNCHANGED <<ctx, shown, live, steps, ex, rl, wire, reg>>

GetSpotPrice ==
    /\ gw.op = "none"
    /\ \E symbol \in ResolverAssets, ticker \in Tickers,
          resp \in Responses :
           LET outcome == get_spot_price(symbol, ticker, resp)
           IN /\ gw' = Called("get_spot_price", <<symbol, ticker>>,
                              resp, outcome)
              /\ sent' = outcome.reqs
    /\ UNCHANGED <<ctx, shown, live, steps, ex, rl, wire, reg>>

InitOperations ==
    /\ ctx = NewUserContext
    /\ shown = Silent
    /\ sent = <<>>
    /\ live = {}
    /\ steps = 0
    /\ ex = ExIdle
    /\ gw = GwIdle
    /\ rl = RlIdle
    /\ wire = WireIdle
    /\ reg = RegIdle

NextOperations ==
    \/ PlaceMarketOrder
    \/ PlaceLimitOrder
    \/ GetOrders
    \/ GetPositions
    \/ GetAvailableExpiries
    \/ GetAccountSummary
    \/ GetSpotPrice

SpecOperations == InitOperations /\ [][NextOperations]_vars

(***************************************************************************)
(* Properties of the order gateway (checked under SpecGateway)              *)
(***************************************************************************)
\* a straddle call whose call leg was accepted and whose put leg failed
PartialStraddle ==
    /\ gw.op = "place_straddle_orders"
    /\ gw.resps[1] = "ok"
    /\ gw.resps[2] # "ok"

\* the order ids an outcome of place_straddle_orders hands to its caller
DeliveredIds(outcome) ==
    IF IsNone(outcome.value) THEN {}
    ELSE {Val(outcome.value).call_order.id, Val(outcome.value).put_order.id}

\* C1: when the call leg of place_straddle_orders succeeds and the put leg
\* then fails, the outcome delivered to the caller names the call order's id
\* together with the put leg's error: the successful leg is not hidden.
C1_PartialFailureNamesCallLeg ==
    PartialStraddle =>
        /\ NewOrderIds[1] \in DeliveredIds(gw.outcome)
        /\ gw.outcome.error = ErrorOf(gw.resps[2])

C3_BatchResultPerOrder ==
    gw.op = "place_batch_stop_orders" =>
        LET orders == gw.args[1]
            results == Val(gw.outcome.value)
        IN /\ ~gw.outcome.raised
           /\ Len(results) = Len(orders)
           /\ Len(sent) = Len(orders)
           /\ \A i \in 1..Len(orders) :
                  /\ results[i].product_id = orders[i].product_id
                  /\ sent[i].method = "POST"
                  /\ sent[i].body.product_id = Some(orders[i].product_id)
                  /\ sent[i].body.side = orders[i].side
                  /\ IF gw.resps[i] = "ok"
                     THEN /\ results[i].success
                          /\ ~IsNone(results[i].order)
                          /\ Val(results[i].order).id = BatchOrderId(i)
                          /\ Val(results[i].order).product_id = orders[i].product_id
                     ELSE /\ ~results[i].success
                          /\ results[i].error = ErrorOf(gw.resps[i])

C3_Witness ==
    /\ gw.op = "place_batch_stop_orders"
    /\ Len(gw.args[1]) = MaxBatch
    /\ gw.resps[1] = "error"
    /\ gw.resps[2] = "ok"
    /\ Len(sent) = MaxBatch
    /\ BatchOrderId(2) \in live

(***************************************************************************)
(* Properties of the request executor (checked under SpecExec)              *)
(***************************************************************************)
\* a response whose status is 4xx and not 429
ClientErrorResponse(outcome) ==
    /\ outcome.kind = "response"
    /\ outcome.code >= 400 /\ outcome.code < 500
    /\ outcome.code # 429

\* C9 as stated: one call of the request executor sends at most 3 HTTP
\* attempts, whatever transport errors and 429/500/502/503/504 responses it
\* meets.
C9_AtMostThreeAttempts == Len(ex.attempts) <= 3

\* C9 as amended: one call of the request executor sends at most 4 HTTP
\* attempts (the first one and up to 3 retries), whatever transport errors
\* and 429/500/502/503/504 responses it meets; the call has then ended.
C9_AtMostFourAttempts ==
    /\ Len(ex.attempts) <= 4
    /\ Len(ex.attempts) = 4 => ex.pc = "done"

C9_Witness ==
    /\ ex.pc = "done"
    /\ Len(ex.attempts) = 4
    /\ ex.attempts[1] = ConnectError
    /\ ex.attempts[4] = Response(503)
    /\ ex.result = "RetryError"

ProtectiveOrders(reqs) ==
    { i \in 1..Len(reqs) :
          /\ reqs[i].method = "POST"
          /\ reqs[i].body.stop_order_type \in {STOP_ORDER_TYPE_SL, STOP_ORDER_TYPE_TP} }

\* the temp_data keys a protective order is built from
KindOf(stop_order_type) == IF stop_order_type = STOP_ORDER_TYPE_SL THEN "sl" ELSE "target"

\* C4: every stop-loss or take-profit order a confirmation handler sends has
\* side sell when the position size stored for it is positive and side buy
\* when it is negative.
C4_ProtectiveSideOpposite ==
    [][\A i \in ProtectiveOrders(sent') :
           LET stored == ctx.temp_data[KindOf(sent'[i].body.stop_order_type)].size
           IN /\ ~IsNone(stored)
              /\ Val(stored) > 0 => sent'[i].body.side = SIDE_SELL
              /\ Val(stored) < 0 => sent'[i].body.side = SIDE_BUY]_vars

C4_Witness ==
    \E i \in ProtectiveOrders(sent) :
        /\ sent[i].body.stop_order_type = STOP_ORDER_TYPE_TP
        /\ sent[i].body.side = SIDE_BUY
        /\ sent[i].body.product_id = Some(302)
        /\ sent[i].resp = "ok"

\* conversation state idle and every scratch field empty
CleanSlate(c) ==
    /\ c.conversation_state = NO_STATE
    /\ c.temp_data = EmptyTemp
    /\ IsNone(c.selected_asset) /\ IsNone(c.selected_expiry)
    /\ IsNone(c.selected_strike)
    /\ IsNone(c.call_product_id) /\ IsNone(c.put_product_id)
    /\ IsNone(c.lot_size) /\ IsNone(c.trade_direction)

\* C5: after a main-menu action, an account selection or a change-account
\* action has been handled, in whatever state it arrives, the conversation
\* state is idle and all scratch data is empty.
C5_MenuAndAccountActionsClear ==
    [][(MainMenu \/ AccountSelection \/ BackToAccounts) => CleanSlate(ctx')]_vars

IsInputState(state) ==
    \/ state = STATE_AWAITING_CUSTOM_LOT
    \/ state \in InputStates("sl")
    \/ state \in InputStates("target")

IsPercentageState(state) ==
    \E kind \in Kinds : state \in {TriggerPctState(kind), LimitPctState(kind)}

\* the texts of TextInputs that are out of range, non-positive or no number
\* for the value the state collects
FailsValidation(state, text) ==
    /\ IsInputState(state)
    /\ \/ text \in { <<"-", "5">>, <<"a", "b", "c">> }
       \/ text = <<"1", "5", "0">> /\ IsPercentageState(state)

C7_UnexpectedInputIgnored ==
    [][(\/ ~IsInputState(ctx.conversation_state) /\ TextInput
        \/ /\ IsInputState(ctx.conversation_state)
           /\ \/ MethodSelection \/ PositionSelection \/ TradeDirection
              \/ TradeConfirmation \/ ProtectiveConfirmation)
           => (ctx' = ctx /\ sent' = <<>>)]_vars

\* C8: when an exchange call made by the expiry-selected handler or by a
\* confirmation handler fails, the handler leaves the conversation state
\* idle and the scratch data of its workflow discarded.
C8_FailedCallReturnsToIdle ==
    [][(/\ ExpirySelected \/ TradeConfirmation \/ ProtectiveConfirmation
        /\ \E i \in 1..Len(sent') : sent'[i].resp = "error")
           => CleanSlate(ctx')]_vars

(***************************************************************************)
(* Properties of the rate limiter (checked under SpecRate)                  *)
(***************************************************************************)
\* C11: of any two consecutive requests of one client, the second is
\* dispatched no earlier than the minimum interval after the first
C11_ConsecutiveDispatchesSpaced ==
    \A i \in 2..Len(rl.dispatched) :
        rl.dispatched[i] - rl.dispatched[i - 1] >= MIN_REQUEST_INTERVAL

(***************************************************************************)
(* Properties of request signing (checked under SpecSign)                   *)
(***************************************************************************)
\* C12: the payload that is signed is the body that is transmitted, and it
\* is the empty string exactly when no body is transmitted
C12_SignedPayloadIsTransmittedBody ==
    wire.method # "" =>
        /\ IsNone(wire.body) <=> wire.payload = <<>>
        /\ ~IsNone(wire.body) => wire.payload = Val(wire.body)

\* C13: the query string that is signed is the query string transmitted in
\* the URL
C13_SignedQueryIsTransmittedQuery ==
    wire.method # "" => wire.query_string = wire.url_query

(***************************************************************************)
(* Properties of the resolver (checked under SpecResolver)                  *)
(***************************************************************************)
\* the call made, the catalog it was answered with, and what it returned
AtmCalled == gw.op = "find_atm_options"
AtmReturned == AtmCalled /\ ~gw.outcome.raised
AtmResult == Val(gw.outcome.value)
AtmCatalog == gw.resps[2]
AtmExpiry == gw.args[2]
AtmSpot == gw.args[3]
\* the listed products of a contract type that belong to the requested
\* expiry, an expiry being a settlement time truncated to its hour
ListedOfExpiry(contract_type) ==
    { i \in 1..Len(AtmCatalog) :
        /\ AtmCatalog[i].contract_type = contract_type
        /\ ~IsNone(AtmCatalog[i].settlement_time)
        /\ Val(AtmCatalog[i].settlement_time).hour = AtmExpiry.hour }
StrikesOfExpiry(contract_type) ==
    { AtmCatalog[i].strike_price : i \in ListedOfExpiry(contract_type) }

\* C14: the strike find_atm_options returns is a call-side strike of the
\* requested expiry, no other such strike is nearer to the spot price, and of
\* two equidistant strikes it is the lower, whatever the catalog's order
C14_AtmStrikeNearestLowerOnTie ==
    AtmReturned =>
        LET strike == AtmResult.strike
        IN /\ strike \in StrikesOfExpiry(CONTRACT_TYPE_CALL)
           /\ \A other \in StrikesOfExpiry(CONTRACT_TYPE_CALL) :
                  \/ Abs(strike - AtmSpot) < Abs(other - AtmSpot)
                  \/ /\ Abs(strike - AtmSpot) = Abs(other - AtmSpot)
                     /\ strike <= other

\* a pair was returned from a catalog that lists the higher of two
\* equidistant call strikes first
C14_Witness ==
    /\ AtmReturned
    /\ \E i, j \in ListedOfExpiry(CONTRACT_TYPE_CALL) :
           /\ i < j
           /\ AtmCatalog[i].strike_price > AtmCatalog[j].strike_price
           /\ Abs(AtmCatalog[i].strike_price - AtmSpot)
                  = Abs(AtmCatalog[j].strike_price - AtmSpot)
           /\ AtmResult.strike = AtmCatalog[j].strike_price

\* the listed product an option of the result stands for is of the given
\* contract type, of the requested expiry and at the returned strike
IsListedAs(option, contract_type) ==
    /\ option.strike = AtmResult.strike
    /\ \E i \in ListedOfExpiry(contract_type) :
           /\ AtmCatalog[i].id = option.product_id
           /\ AtmCatalog[i].strike_price = AtmResult.strike

\* the call-side strike of the expiry nearest to the spot price, the lower of
\* two equidistant ones
NearestCallStrike ==
    CHOOSE strike \in StrikesOfExpiry(CONTRACT_TYPE_CALL) :
        \A other \in StrikesOfExpiry(CONTRACT_TYPE_CALL) :
            \/ Abs(strike - AtmSpot) < Abs(other - AtmSpot)
            \/ /\ Abs(strike - AtmSpot) = Abs(other - AtmSpot)
               /\ strike <= other

\* C15: a returned pair is a call and a put of the requested expiry at the
\* returned strike; with an empty side, or no put at the chosen strike,
\* the call fails
C15_AtmPairMatchesOrFails ==
    /\ AtmReturned =>
           /\ IsListedAs(AtmResult.call, CONTRACT_TYPE_CALL)
           /\ IsListedAs(AtmResult.put, CONTRACT_TYPE_PUT)
    /\ (/\ AtmCalled
        /\ \/ ListedOfExpiry(CONTRACT_TYPE_CALL) = {}
           \/ ListedOfExpiry(CONTRACT_TYPE_PUT) = {}
           \/ NearestCallStrike \notin StrikesOfExpiry(CONTRACT_TYPE_PUT))
       => gw.outcome.raised

\* a pair was returned although the put side lists, before the matching
\* put, a put of the expiry at another strike
C15_Witness ==
    /\ AtmReturned
    /\ \E i, j \in ListedOfExpiry(CONTRACT_TYPE_PUT) :
           /\ i < j
           /\ AtmCatalog[i].strike_price # AtmResult.strike
           /\ AtmCatalog[j].id = AtmResult.put.product_id

(***************************************************************************)
(* Properties of expiry selection (checked under Spec)                      *)
(***************************************************************************)
\* the update handled was an expiry selection whose spot-price and catalog
\* requests were both answered with a result
ResolverSucceeded ==
    /\ ExpirySelected
    /\ Len(sent') = 2
    /\ \A i \in 1..2 : sent'[i].resp = "ok"

\* C16: when the resolver call made on expiry selection succeeds, the
\* session's strike, call product id and put product id are the resolver's
\* when the handler returns
C16_ResolvedPairStored ==
    [][ResolverSucceeded =>
           \E atm \in AtmResults :
               /\ ctx'.selected_strike = Some(atm.strike)
               /\ ctx'.call_product_id = Some(atm.call)
               /\ ctx'.put_product_id = Some(atm.put)]_vars

(***************************************************************************)
(* Properties of the session registry (checked under SpecRegistry)          *)
(***************************************************************************)
\* task t comes back from get_context in this step
GotContext(t) == reg.tasks[t].pc = "received" /\ reg'.tasks[t].pc = "holding"

\* C17: under every interleaving of handlers the registry holds one session
\* per user, shared with no other user; get_context returns the session the
\* registry holds, and a held session is never replaced by another one, only
\* removed
C17_OneSessionPerUser ==
    [][/\ \A u, v \in UserIds :
              (u # v /\ ~IsNone(reg'.contexts[u]))
                  => reg'.contexts[u] # reg'.contexts[v]
       /\ \A u \in UserIds :
              (~IsNone(reg.contexts[u]) /\ reg'.contexts[u] # reg.contexts[u])
                  => IsNone(reg'.contexts[u])
       /\ \A t \in Tasks :
              GotContext(t) =>
                  /\ ~IsNone(reg'.tasks[t].ref)
                  /\ reg'.tasks[t].ref = reg'.contexts[reg'.tasks[t].user]]_vars

\* two handlers of the same user, started before either called get_context,
\* hold the same session
C17_Witness ==
    \E t1, t2 \in Tasks :
        /\ t1 # t2
        /\ reg.tasks[t1].pc = "holding"
        /\ reg.tasks[t2].pc = "holding"
        /\ reg.tasks[t1].user = reg.tasks[t2].user
        /\ ~IsNone(reg.tasks[t1].ref)
        /\ reg.tasks[t1].ref = reg.tasks[t2].ref

(***************************************************************************)
(* Properties of the single operations (checked under SpecOperations)       *)
(***************************************************************************)
\* C18: place_market_order and place_limit_order fail locally, sending no
\* request, when size is not greater than 0
C18_NonPositiveSizeNotSent ==
    (/\ gw.op \in {"place_market_order", "place_limit_order"}
     /\ gw.args[3] <= 0)
        => (sent = <<>> /\ gw.outcome.raised)

\* C20: an operation whose request is answered with a success body without
\* a result field fails instead of returning a value
C20_MissingResultFails ==
    (gw.op # "none" /\ gw.resps = <<"no_result">>) => gw.outcome.raised

\* C21: get_spot_price fails when the ticker result carries no spot price
\* field, and a price it returns is the one present in the response
C21_SpotPriceAbsentFails ==
    (gw.op = "get_spot_price" /\ gw.resps = <<"ok">>)
        => IF IsNone(gw.args[2]) THEN gw.outcome.raised
           ELSE gw.outcome.value = gw.args[2]

\* the call of get_available_expiries that was answered with a catalog
ExpiriesListed ==
    /\ gw.op = "get_available_expiries"
    /\ gw.args[1] \in UNDERLYING_SYMBOLS
    /\ gw.resps = <<"ok">>
ExpiriesCatalog == gw.args[2]
ExpiriesResult == Val(gw.outcome.value)
\* the settlement times of the catalog that parse
ParseableTimes ==
    { Val(ExpiriesCatalog[i].settlement_time) :
        i \in { j \in 1..Len(ExpiriesCatalog) :
                  /\ ~IsNone(ExpiriesCatalog[j].settlement_time)
                  /\ ~fromisoformat_fails(Val(ExpiriesCatalog[j].settlement_time)) } }

\* C22: get_available_expiries returns expiries in strictly ascending
\* timestamp order, no two of them in the same (year, month, day, hour),
\* every product with a parseable settlement time being represented by the
\* entry of its hour; a malformed settlement time is skipped and the call
\* does not fail
C22_ExpiriesOnePerHourAscending ==
    ExpiriesListed =>
        /\ ~gw.outcome.raised
        /\ \A i, j \in 1..Len(ExpiriesResult) :
               i < j => /\ ExpiriesResult[i].timestamp < ExpiriesResult[j].timestamp
                        /\ ~same_hour(ExpiriesResult[i].datetime,
                                      ExpiriesResult[j].datetime)
        /\ \A t \in ParseableTimes :
               \E i \in 1..Len(ExpiriesResult) :
                   same_hour(ExpiriesResult[i].datetime, t)

\* C23: every request sent to GET /v2/positions carries an empty query
\* string, in what is signed and in the URL that is transmitted
C23_PositionsQueryEmpty ==
    (wire.method = "GET" /\ wire.path = "/v2/positions")
        => (wire.query_string = <<>> /\ wire.url_query = <<>>)

(***************************************************************************)
(* Prices of protective orders in percentage mode (checked under            *)
(* SpecConfirm)                                                             *)
(***************************************************************************)
\* price is entry * (1 + sign * pct / 100), to the last digit the fixed
\* point keeps
IsPctOfEntry(price, entry_price, pct, sign) ==
    /\ price.k = "num"
    /\ price.v * (100 * Scale) <= entry_price.v * (100 * Scale + sign * pct.v)
    /\ entry_price.v * (100 * Scale + sign * pct.v) < (price.v + 1) * (100 * Scale)

\* the orders of one kind a step sends while the method stored for that kind
\* is percentage
PercentageOrders(kind, reqs, c) ==
    { i \in ProtectiveOrders(reqs) :
          /\ KindOf(reqs[i].body.stop_order_type) = kind
          /\ c.temp_data[kind].method = Some("percentage") }

\* C24: in percentage mode the trigger price and the limit price of the
\* stop-loss order placed are entry*(1 - pct/100) for a long position and
\* entry*(1 + pct/100) for a short one, the trigger price from the trigger
\* percentage and the limit price from the limit percentage
C24_StopPricesFromPercentages ==
    [][\A i \in PercentageOrders("sl", sent', ctx) :
           LET td == ctx.temp_data.sl
               sign == IF Val(td.size) > 0 THEN 0 - 1 ELSE 1
           IN /\ IsPctOfEntry(Val(sent'[i].body.stop_price), Val(td.entry_price),
                               Val(td.trigger_pct), sign)
              /\ IsPctOfEntry(Val(sent'[i].body.limit_price), Val(td.entry_price),
                               Val(td.limit_pct), sign)]_vars

\* entry 100000, long: trigger 5 per cent gives 95000, limit 10 per cent
\* gives 90000
C24_Witness ==
    \E i \in ProtectiveOrders(sent) :
        /\ sent[i].body.stop_order_type = STOP_ORDER_TYPE_SL
        /\ sent[i].body.side = SIDE_SELL
        /\ sent[i].body.stop_price = Some(Num(95000 * Scale))
        /\ sent[i].body.limit_price = Some(Num(90000 * Scale))

Parsed == Val(gw.outcome.value)
EncodedAction == gw.args[1]
EncodedParams == gw.args[2]
\* the string forms of the parameters that were encoded, in order
StringForms == [i \in 1..Len(EncodedParams) |-> str(EncodedParams[i])]
HasColon(s) == \E i \in 1..Len(s) : s[i] = ":"

\* C26: for any action name and any list of parameters, parsing the created
\* callback data yields that action and a params list equal to the string
\* forms of the parameters, in order
C26_CallbackRoundTrip ==
    gw.op = "parse_callback_data"
        => /\ Parsed.action = EncodedAction
           /\ Parsed.params = Some(StringForms)

\* C26 as it holds: when neither the action name nor the string form of a
\* parameter contains ':', parsing the created callback data yields that
\* action and, for at least one parameter, a params list equal to the
\* string forms of the parameters in order; with no parameter the result
\* has no params entry
C26_CallbackRoundTripWithoutColons ==
    (/\ gw.op = "parse_callback_data"
     /\ ~HasColon(EncodedAction)
     /\ \A i \in 1..Len(StringForms) : ~HasColon(StringForms[i]))
        => /\ Parsed.action = EncodedAction
           /\ Parsed.params = IF EncodedParams = <<>> THEN None
                               ELSE Some(StringForms)

\* select_expiry with 13 and "BTCUSD" came back as "13" and "BTCUSD"
C26_Witness ==
    /\ gw.op = "parse_callback_data"
    /\ EncodedParams = <<IntParam(13), StrParam(<<"BTCUSD">>)>>
    /\ Parsed.action = <<"select_expiry">>
    /\ Parsed.params = Some(<< <<"1", "3">>, <<"BTCUSD">> >>)

(***************************************************************************)
(* What the validators accept (checked under SpecValidate)                  *)
(***************************************************************************)
ValidatedText == gw.args[1]
Validation == Val(gw.outcome.value)
\* text parses to a float that is a number x with low < x <= high
FloatWithin(text, low, high) ==
    /\ FloatParses(text)
    /\ FloatOf(text).k = "num"
    /\ low * Scale < FloatOf(text).v
    /\ FloatOf(text).v <= high * Scale
\* text parses to an int n with low <= n <= high
IntWithin(text, low, high) ==
    /\ IntParses(text)
    /\ low <= IntOf(text)
    /\ IntOf(text) <= high
\* the validator accepted exactly when in_range, returning parsed
AcceptsExactly(in_range, parsed) ==
    /\ Validation.valid <=> in_range
    /\ Validation.value = IF in_range THEN Some(parsed) ELSE None

\* C27: validate_percentage, validate_price and validate_lot_size accept an
\* input exactly when it parses to a number in (0,100], (0,1000000] and
\* [1,1000] respectively, returning the parsed value; otherwise they return
\* invalid with no value
C27_ValidatorsAcceptExactlyInRange ==
    /\ gw.op = "validate_percentage"
           => AcceptsExactly(FloatWithin(ValidatedText, 0, 100),
                             FloatOf(ValidatedText))
    /\ gw.op = "validate_price"
           => AcceptsExactly(FloatWithin(ValidatedText, 0, 1000000),
                             FloatOf(ValidatedText))
    /\ gw.op = "validate_lot_size"
           => AcceptsExactly(IntWithin(ValidatedText, 1, 1000),
                             IntOf(ValidatedText))

(***************************************************************************)
(* The order of the input states of the stop-loss and target workflows      *)
(* (checked under SpecProtect)                                              *)
(***************************************************************************)
\* the step enters conversation state target from another state
Enters(target) ==
    ctx'.conversation_state = target /\ ctx.conversation_state # target

\* the input states are entered in order: a trigger state by the choice of
\* its method, a limit state from the trigger state of the same method with
\* the trigger value stored
EnteredInOrder(kind) ==
    /\ Enters(TriggerPctState(kind))
           => ctx'.temp_data[kind].method = Some("percentage")
    /\ Enters(TriggerNumState(kind))
           => ctx'.temp_data[kind].method = Some("numeral")
    /\ Enters(LimitPctState(kind))
           => /\ ctx.conversation_state = TriggerPctState(kind)
              /\ ~IsNone(ctx'.temp_data[kind].trigger_pct)
    /\ Enters(LimitNumState(kind))
           => /\ ctx.conversation_state = TriggerNumState(kind)
              /\ ~IsNone(ctx'.temp_data[kind].trigger_price)

\* a valid trigger input moves to the limit state of the same method
ValidTriggerAdvances(kind, text) ==
    /\ (ctx.conversation_state = TriggerPctState(kind)
            /\ validate_percentage(text).valid)
           => ctx'.conversation_state = LimitPctState(kind)
    /\ (ctx.conversation_state = TriggerNumState(kind)
            /\ validate_price(text).valid)
           => ctx'.conversation_state = LimitNumState(kind)

\* the text is a valid input for the limit state the workflow of kind is in
ValidLimitInput(kind, text) ==
    \/ ctx.conversation_state = LimitPctState(kind)
           /\ validate_percentage(text).valid
    \/ ctx.conversation_state = LimitNumState(kind)
           /\ validate_price(text).valid

IsLeg(i, product_id) ==
    /\ sent[i].method = "POST"
    /\ sent[i].path = "/v2/orders"
    /\ sent[i].body.product_id = Some(product_id)
    /\ sent[i].body.order_type = ORDER_TYPE_MARKET
    /\ sent[i].body.side = gw.args[3]
    /\ sent[i].body.size = Some(gw.args[4])

\* C29: place_straddle_orders sends the call-leg order before the put-leg
\* order, both as market orders with the same side and the same size; if
\* the call leg fails, no put-leg order is sent
C29_CallLegThenPutLeg ==
    gw.op = "place_straddle_orders"
        => /\ IsLeg(1, gw.args[1])
           /\ IF gw.resps[1] = "ok"
              THEN Len(sent) = 2 /\ IsLeg(2, gw.args[2])
              ELSE Len(sent) = 1

\* the call leg was refused and nothing else was sent, although the put leg
\* would have been accepted
C29_Witness ==
    /\ gw.op = "place_straddle_orders"
    /\ gw.resps = <<"error", "ok">>
    /\ Len(sent) = 1
    /\ sent[1].body.product_id = Some(301)
    /\ gw.outcome.raised

(***************************************************************************)
(* The side of a confirmed straddle (checked under SpecTrade)               *)
(***************************************************************************)
\* the orders among the requests of a step
PlacedOrders(reqs) ==
    { i \in 1..Len(reqs) : reqs[i].method = "POST" /\ reqs[i].path = "/v2/orders" }

FinalOutcome == ex.attempts[Len(ex.attempts)]
ExecutorErrors ==
    {"RetryError", "ConnectionError", "HTTPError", "UnboundLocalError"}

ValidLot(n) == n >= 1 /\ n <= 1000

\* C31: every lot size stored in the session by the lot-selection step, by
\* a lot button's action or by custom text, lies in [1, 1000], and so does
\* the size of every straddle order sent
C31_LotSizeInRange ==
    /\ ~IsNone(ctx.lot_size) => ValidLot(Val(ctx.lot_size))
    /\ \A i \in PlacedOrders(sent) : ValidLot(Val(sent[i].body.size))

(***************************************************************************)
(* Actions outside a workflow that has collected data (checked under        *)
(* SpecInterrupted)                                                         *)
(***************************************************************************)
\* what the handlers of show positions, show orders, account details, cancel
\* trade, the start of the trade workflow and the start of a protective
\* workflow render
OutsideReplies ==
    <<"open_positions", "no_open_positions", "open_positions_failed",
      "orders", "no_orders", "orders_failed", "summary", "summary_failed",
      "trade_cancelled", "select_asset",
      "select_position", "no_positions", "positions_failed">>
RepliedOutside(m) == \E i \in 1..Len(OutsideReplies) : m.msg = OutsideReplies[i]

ProtectiveCollected(c, kind) == ~IsNone(c.temp_data[kind].product_id)
TradeCollected(c) ==
    /\ ~IsNone(c.call_product_id) /\ ~IsNone(c.put_product_id)
    /\ ~IsNone(c.lot_size) /\ ~IsNone(c.trade_direction)
TradeDiscarded(c) ==
    /\ IsNone(c.call_product_id) /\ IsNone(c.put_product_id)
    /\ IsNone(c.lot_size) /\ IsNone(c.trade_direction)
Idle(c) == c.conversation_state = NO_STATE

\* C32: when a protective or trade workflow has collected data, an action
\* outside that workflow leaves the session idle with the workflow's scratch
\* data discarded, and a confirm action that follows places no order
C32_OutsideActionDiscards ==
    [][/\ \A kind \in Kinds :
              (ProtectiveCollected(ctx, kind) /\ RepliedOutside(shown'))
                  => Idle(ctx') /\ ctx'.temp_data[kind] = EmptyProt
       /\ (TradeCollected(ctx) /\ RepliedOutside(shown'))
              => Idle(ctx') /\ TradeDiscarded(ctx')
       /\ RepliedOutside(shown) => PlacedOrders(sent') = {}]_vars

(***************************************************************************)
(* The scratch data of the input states (checked under Spec)                *)
(***************************************************************************)
\* C33: whenever the conversation state is an input state of the stop-loss
\* or of the target workflow, temp_data holds that workflow's product id,
\* position size, entry price and method, and in a limit input state also
\* the trigger value of that method
C33_InputStatesCarryData ==
    \A kind \in Kinds :
        LET td == ctx.temp_data[kind]
        IN /\ ctx.conversation_state \in InputStates(kind)
                  => /\ ~IsNone(td.product_id) /\ ~IsNone(td.size)
                     /\ ~IsNone(td.entry_price) /\ ~IsNone(td.method)
           /\ ctx.conversation_state = LimitPctState(kind) => ~IsNone(td.trigger_pct)
           /\ ctx.conversation_state = LimitNumState(kind) => ~IsNone(td.trigger_price)

(***************************************************************************)
(* A confirmation delivered twice (checked under SpecDouble)                *)
(***************************************************************************)
\* the orders among the requests that the exchange accepted
AcceptedOrders(reqs) == { i \in PlacedOrders(reqs) : reqs[i].resp = "ok" }

\* C34: the deliveries of one confirmation action for one session leave at
\* most one accepted protective order, or one accepted call order and one
\* accepted put order, also when the handler runs interleave at their awaits
C34_AtMostOnePlacement ==
    \A i, j \in AcceptedOrders(sent) :
        sent[i].body.product_id = sent[j].body.product_id => i = j

(***************************************************************************)
(* The orders one placement call creates (checked under SpecPlacement)      *)
(***************************************************************************)
\* C35: one call of place_market_order, place_stop_loss_order or
\* place_take_profit_order creates at most one order at the exchange, also
\* when an attempt the exchange accepted is retried after a read timeout or
\* a 5xx answer
C35_OneCallOneOrder == Cardinality(live) <= 1

(***************************************************************************)
(* C36                                                                      *)
(***************************************************************************)
\* the summary on the user's screen
SummaryOnScreen == gw.args[1]

\* C36: the stop-loss or take-profit order sent on confirmation has exactly
\* the product, the size, the trigger price and the limit price of the most
\* recent confirmation summary shown to the user, whatever position
\* selections, method choices and text inputs came in between
C36_OrderMatchesSummary ==
    \A i \in PlacedOrders(sent) :
        /\ sent[i].body.product_id = Some(SummaryOnScreen.product_id)
        /\ sent[i].body.size = Some(SummaryOnScreen.size)
        /\ sent[i].body.stop_price = Some(SummaryOnScreen.stop_price)
        /\ sent[i].body.limit_price = Some(SummaryOnScreen.limit_price)

(***************************************************************************)
(* C37                                                                      *)
(***************************************************************************)
\* C37: no exchange request is sent for a session without selected account
\* credentials: every handler invoked without an account ends without
\* issuing a request
C37_NoRequestWithoutAccount ==
    [][IsNone(ctx.account_credentials) => sent' = <<>>]_vars

\* C37, amended: a handler invoked without selected account credentials
\* issues a request only when it is the account selection, which has stored
\* the selected account's credentials in the session by then; every other
\* handler ends without issuing a request
C37_NoRequestWithoutAccountButSelection ==
    [][(IsNone(ctx.account_credentials) /\ sent' # <<>>)
           => /\ ~IsNone(ctx'.account_credentials)
              /\ \A i \in 1..Len(sent') : sent'[i].path = "/v2/wallet/balances"]_vars

\* a handler was invoked without credentials and ended with an error reply
\* and no request
C37_Witness ==
    /\ IsNone(ctx.account_credentials)
    /\ sent = <<>>
    /\ shown.error = "TypeError"

(***************************************************************************)
(* C38                                                                      *)
(***************************************************************************)
\* the account that was selected when the workflow data was collected
CollectedUnder == gw.args[1]

\* C38: a protective order or a straddle is sent with the credentials of the
\* account that was selected when its workflow data (the position, or the
\* call and put products) was collected, never with those of another account
C38_OrderUnderCollectingAccount ==
    PlacedOrders(sent) # {} => ctx.account_credentials = Some(CollectedUnder)

(***************************************************************************)
(* C39                                                                      *)
(***************************************************************************)
\* a price that is strictly positive and at most 1000000
PriceInRange(price) ==
    /\ price.k = "num"
    /\ price.v > 0
    /\ price.v <= 1000000 * Scale

\* C39: every stop (trigger) price and limit price sent to the exchange in a
\* protective order is strictly positive and at most 1000000, in percentage
\* mode and in absolute-price mode, for every validated percentage in
\* (0, 100] and either direction of the position
C39_SentPricesInRange ==
    \A i \in PlacedOrders(sent) :
        /\ PriceInRange(Val(sent[i].body.stop_price))
        /\ PriceInRange(Val(sent[i].body.limit_price))

(***************************************************************************)
(* C40                                                                      *)
(***************************************************************************)
\* the user whose update task t is handling in the step
ActingUser(t) ==
    IF reg.tasks[t].pc = "idle" THEN reg'.tasks[t].user ELSE reg.tasks[t].user

====
